---------------------------- MODULE Spec2Model ----------------------------
(***************************************************************************)
(* State-machine model of the Ignis firework engine.                       *)
(*                                                                         *)
(* Two engine variants exist in the sources and both are modelled:         *)
(*   "kaylon" : src/unnamed/part_000      (FireworkCanvas with kaylonMode) *)
(*   "menu"   : src/components/MainMenu.tsx lines 216-1306 (second copy)   *)
(* The variant is fixed in Init; every action branches on it where the two *)
(* copies differ.                                                          *)
(*                                                                         *)
(* Numbers.  JavaScript numbers are modelled in fixed point with three     *)
(* decimals: the integer n stands for n/1000 (alpha 1.0 is 1000, the       *)
(* rocket gravity 0.25 is 250, a pixel is 1000).  Products are divided by  *)
(* 1000 and rounded down.  Counts (particleCount, loop indices, lengths)   *)
(* are plain integers.                                                     *)
(*                                                                         *)
(* Randomness.  Math.random() is a stream: every handler that calls it     *)
(* reads a stream s of values from MathRandom, chosen when the handler     *)
(* starts; the k-th call inside the handler reads s cyclically, in the     *)
(* order in which the source makes its calls.                              *)
(***************************************************************************)
EXTENDS Integers, Sequences, FiniteSets, TLC

(* ---------------------------- bounds ---------------------------------- *)
\* launches accepted in one run (caps the launch / sound counters)
MaxLaunches == 2
\* length of the streams of Math.random() values scenes are generated from
CityStreamLen == 2
\* frame ticks in one run (caps positions of particles that never die)
MaxTicks == 5
\* frame ticks in a run that follows one rocket from its launch to its burst
\* and beyond
MaxAscent == 101
\* host calls and changes of the environment in one run: launch, unlockAudio,
\* props, window size, drawing surface, audio interruptions
MaxEvents == 2
\* length of the random stream a handler draws
StreamLen == 1

(* ------------------------- fixed point -------------------------------- *)
Milli == 10 * 100

Mul(a, b) == (a * b) \div Milli

Max(a, b) == IF a >= b THEN a ELSE b

Min(a, b) == IF a <= b THEN a ELSE b

Abs(a) == IF a >= 0 THEN a ELSE 0 - a

\* Math.floor of a fixed-point number, as a plain integer
Floor(a) == a \div Milli

\* Math.round of a fixed-point number (round half up), as a plain integer
Round(a) == (a + Milli \div 2) \div Milli

(* --------------------------- randomness ------------------------------- *)
\* values Math.random() can return: [0, 1), here 0.0 and 0.999
MathRandom == {0, 999}

Streams == [1..StreamLen -> MathRandom]

\* the streams scene generation reads (window, star and building draws)
SceneStreams == {[i \in 1..StreamLen |-> 999]}

\* the k-th (k = 0, 1, ...) value of stream s
Draw(s, k) == s[(k % StreamLen) + 1]

\* random(min, max) with u the value Math.random() returned
random(min, max, u) == Mul(u, max - min) + min


(* ------------------------------ math ---------------------------------- *)
\* Math.PI and 2 * Math.PI in fixed point (radians)
Pi == 3141592 \div Milli

TwoPi == 2 * Pi

RECURSIVE IsqrtIn(_, _, _)
IsqrtIn(n, lo, hi) ==
  IF lo >= hi THEN lo
  ELSE LET mid == (lo + hi + 1) \div 2
       IN  IF mid * mid <= n THEN IsqrtIn(n, mid, hi) ELSE IsqrtIn(n, lo, mid - 1)

\* floor of the square root of a plain integer 0 <= n < 2^30
Isqrt(n) == IsqrtIn(n, 0, 32767)

\* Math.sin on [0, Pi] in fixed point (Bhaskara's rational approximation,
\* exact at 0, Pi/6, Pi/2, 5Pi/6 and Pi up to rounding)
SinHalf(x) ==
  LET p == x * (Pi - x)
  IN  (16 * p) \div ((5 * Pi * Pi - 4 * p) \div Milli)

\* Math.sin(a), a in fixed-point radians, any sign
Sin(a) ==
  LET r == a % TwoPi
  IN  IF r <= Pi THEN SinHalf(r) ELSE 0 - SinHalf(r - Pi)

\* Math.cos(a)
Cos(a) == Sin(a + Pi \div 2)

\* Math.cos(Math.acos(c)) and Math.sin(Math.acos(c)) for c in [-1, 1]
CosAcos(c) == c

SinAcos(c) == Isqrt(Milli * Milli - c * c)

\* Math.pow(b, 3)
Pow3(b) == Mul(Mul(b, b), b)

(* ----------------------------- colours -------------------------------- *)
\* A colour string is the sequence of its characters.
HexDigits ==
  << "0", "1", "2", "3", "4", "5", "6", "7", "8", "9",
     "a", "b", "c", "d", "e", "f" >>

UpperHexDigits ==
  << "0", "1", "2", "3", "4", "5", "6", "7", "8", "9",
     "A", "B", "C", "D", "E", "F" >>

IsHexDigit(c) ==
  \E i \in 1..16 : HexDigits[i] = c \/ UpperHexDigits[i] = c

\* parseInt(c, 16) of one hex digit
HexVal(c) ==
  (CHOOSE i \in 1..16 : HexDigits[i] = c \/ UpperHexDigits[i] = c) - 1

RAINBOW == << "R", "A", "I", "N", "B", "O", "W" >>

White == [r |-> 255, g |-> 255, b |-> 255]

\* hexToRgb: RAINBOW and every string the pattern rejects give white
hexToRgb(hex) ==
  IF hex = RAINBOW THEN White
  ELSE LET body == IF Len(hex) > 0 /\ hex[1] = "#" THEN Tail(hex) ELSE hex
       IN  IF Len(body) = 6 /\ \A i \in 1..6 : IsHexDigit(body[i])
           THEN [r |-> 16 * HexVal(body[1]) + HexVal(body[2]),
                 g |-> 16 * HexVal(body[3]) + HexVal(body[4]),
                 b |-> 16 * HexVal(body[5]) + HexVal(body[6])]
           ELSE White

(* --------------------------- configuration ---------------------------- *)
\* ExplosionShape; OTHER is any string outside the enum (the switch default)
Shapes == {"SPHERE", "HEART", "STAR", "RING", "BURST", "OTHER"}

Qualities == {"Low", "High", "Ultra"}

KaylonModes == {"Matrix", "Vector"}

Red == << "#", "e", "f", "4", "4", "4", "4" >>

Gold == << "#", "F", "F", "D", "7", "0", "0" >>

NotAColour == << "r", "e", "d" >>

\* FireworkConfig: particleCount is a plain integer, the other numbers are
\* fixed point.  name, description are carried nowhere and left out.
Config(pc, shape, size, decayRate, gravity, primary) ==
  [particleCount |-> pc, explosionShape |-> shape, explosionSize |-> size,
   decayRate |-> decayRate, gravity |-> gravity,
   primaryColor |-> primary, secondaryColor |-> Gold]

(* ------------------------------ Spark --------------------------------- *)
\* new Spark(x, y, color): three draws, from position k of stream s
Spark(x, y, s, k) ==
  [x |-> x, y |-> y,
   vx |-> random(0 - Milli, Milli, Draw(s, k)),
   vy |-> random(0 - Milli, Milli, Draw(s, k + 1)) + Milli,
   alpha |-> Milli,
   decay |-> random(30, 80, Draw(s, k + 2))]

SparkUpdate(sp) ==
  [sp EXCEPT !.x = sp.x + sp.vx, !.y = sp.y + sp.vy, !.alpha = sp.alpha - sp.decay]

(* ------------------------------ Rocket -------------------------------- *)
\* new Rocket(canvasWidth, canvasHeight, config) of part_000: four draws
RocketKaylon(id, canvasWidth, canvasHeight, config, s, k) ==
  [id |-> id,
   x |-> canvasWidth \div 2
         + random(0 - (canvasWidth \div 3), canvasWidth \div 3, Draw(s, k)),
   y |-> canvasHeight,
   targetY |-> Mul(canvasHeight, 150) + random(0, Mul(canvasHeight, 200), Draw(s, k + 1)),
   vx |-> random(0 - 2 * Milli, 2 * Milli, Draw(s, k + 2)),
   vy |-> 0 - random(18 * Milli, 26 * Milli, Draw(s, k + 3)),
   exploded |-> FALSE,
   config |-> config,
   trail |-> << >>,
   wobblePhase |-> 0,
   sparks |-> << >>]

\* new Rocket(canvasWidth, canvasHeight, config) of the menu variant: five draws
RocketMenu(id, canvasWidth, canvasHeight, config, s, k) ==
  [id |-> id,
   x |-> canvasWidth \div 2
         + random(0 - (canvasWidth \div 6), canvasWidth \div 6, Draw(s, k)),
   y |-> canvasHeight,
   targetY |-> Mul(canvasHeight, 150) + random(0, Mul(canvasHeight, 250), Draw(s, k + 1)),
   vx |-> random(0 - Milli, Milli, Draw(s, k + 2)),
   vy |-> 0 - random(14 * Milli, 18 * Milli, Draw(s, k + 3)),
   exploded |-> FALSE,
   config |-> config,
   trail |-> << >>,
   wobblePhase |-> random(0, TwoPi, Draw(s, k + 4)),
   sparks |-> << >>]

\* update() that tests the altitude only (seeded fault)
UpdateAltitudeOnly(r) ==
  [r EXCEPT !.trail = IF Len(r.trail) >= 8 THEN Append(Tail(r.trail), [x |-> r.x, y |-> r.y])
                      ELSE Append(r.trail, [x |-> r.x, y |-> r.y]),
            !.x = r.x + r.vx, !.y = r.y + r.vy, !.vy = r.vy + 250,
            !.exploded = r.exploded \/ r.y + r.vy <= r.targetY]

\* update() that bursts a rocket only once it has stopped rising (seeded fault)
UpdateBurstsAtRest(r) ==
  [r EXCEPT !.trail = IF Len(r.trail) >= 8 THEN Append(Tail(r.trail), [x |-> r.x, y |-> r.y])
                      ELSE Append(r.trail, [x |-> r.x, y |-> r.y]),
            !.x = r.x + r.vx, !.y = r.y + r.vy, !.vy = r.vy + 250,
            !.exploded = r.exploded \/ r.vy + 250 >= 0 \/ r.y + r.vy <= r.targetY]

\* Rocket.update of part_000 (no draw of Math.random)
RocketUpdateKaylon(r) ==
  LET pushed == Append(r.trail, [x |-> r.x, y |-> r.y])
      trail == IF Len(pushed) > 8 THEN Tail(pushed) ELSE pushed
      x == r.x + r.vx
      y == r.y + r.vy
      vy == r.vy + 250
  IN  [r EXCEPT !.trail = trail, !.x = x, !.y = y, !.vy = vy,
                !.exploded = r.exploded \/ vy >= 0 - Milli \/ y <= r.targetY]

\* the reverse loop that updates the sparks and splices the dead ones out
SparksPass(sparks) ==
  LET upd == [i \in 1..Len(sparks) |-> SparkUpdate(sparks[i])]
  IN  SelectSeq(upd, LAMBDA sp : ~(sp.alpha <= 0))

\* Rocket.update of the menu variant: six draws (two sparks) while not exploded
RocketUpdateMenu(r, s, k) ==
  LET x == r.x + r.vx + Mul(Sin(Mul(r.y, 50) + r.wobblePhase), 500)
      y == r.y + r.vy
      vy == r.vy + 200
      emitted == IF ~r.exploded
                 THEN r.sparks \o << Spark(x, y + 10 * Milli, s, k),
                                    Spark(x, y + 10 * Milli, s, k + 3) >>
                 ELSE r.sparks
  IN  [r EXCEPT !.x = x, !.y = y, !.vy = vy,
                !.sparks = SparksPass(emitted),
                !.exploded = r.exploded \/ vy >= 0 - 2 * Milli \/ y <= r.targetY]

\* draws of Math.random one Rocket.update makes
RocketUpdateDraws(variant, r) ==
  IF variant = "menu" /\ ~r.exploded THEN 6 ELSE 0

(* ----------------------------- Particle ------------------------------- *)
\* Only the fields update() and the removal test read are kept.  rgb,
\* secondaryRgb, flicker, flickerOffset, size and hasTrail are read by draw()
\* alone to pick colours and radii; the draws of Math.random() that set them
\* are still counted, so later draws read the stream where the source does.
IsRainbow(config) == config.primaryColor = RAINBOW

\* draws of Math.random one Particle constructor makes
ParticleDraws(variant, config) ==
  (IF IsRainbow(config) THEN 1 ELSE 0) + (IF variant = "kaylon" THEN 6 ELSE 5)

\* new Particle(x, y, z, config, vx, vy, vz) of part_000
ParticleKaylon(id, x, y, z, config, vx, vy, vz, s, k) ==
  LET k0 == k + (IF IsRainbow(config) THEN 1 ELSE 0)
  IN  [id |-> id, x |-> x, y |-> y, z |-> z, vx |-> vx, vy |-> vy, vz |-> vz,
       alpha |-> Milli,
       decay |-> Mul(config.decayRate, random(500, 1200, Draw(s, k0))),
       gravity |-> Mul(config.gravity, random(700, 1000, Draw(s, k0 + 1))),
       drag |-> 920 + random(0, 40, Draw(s, k0 + 2)),
       history |-> [i \in 1..4 |-> << x, y, z >>]]

\* new Particle(...) of the menu variant
ParticleMenu(id, x, y, z, config, vx, vy, vz, s, k) ==
  LET k0 == k + (IF IsRainbow(config) THEN 1 ELSE 0)
  IN  [id |-> id, x |-> x, y |-> y, z |-> z, vx |-> vx, vy |-> vy, vz |-> vz,
       alpha |-> Milli,
       decay |-> Mul(config.decayRate, random(800, 1200, Draw(s, k0))),
       gravity |-> Mul(config.gravity, 800),
       drag |-> 920 + random(0, 40, Draw(s, k0 + 1)),
       history |-> << >>]

\* the physics both Particle.update share: drag, gravity, position, alpha
ParticleStep(p) ==
  LET vx == Mul(p.vx, p.drag)
      vy == Mul(p.vy, p.drag) + p.gravity
      vz == Mul(p.vz, p.drag)
  IN  [p EXCEPT !.vx = vx, !.vy = vy, !.vz = vz,
                !.x = p.x + vx, !.y = p.y + vy, !.z = p.z + vz,
                !.alpha = p.alpha - p.decay]

\* update() without history.pop() (seeded fault)
UpdateHistoryGrows(p) ==
  [ParticleStep(p) EXCEPT !.history = << << p.x, p.y, p.z >> >> \o p.history]

\* Particle.update of part_000: history.pop(); history.unshift([x, y, z])
ParticleUpdateKaylon(p) ==
  LET popped == SubSeq(p.history, 1, Len(p.history) - 1)
      hist == << << p.x, p.y, p.z >> >> \o popped
  IN  [ParticleStep(p) EXCEPT !.history = hist]

\* Particle.update of the menu variant: history.push(...); shift beyond 8
ParticleUpdateMenu(p) ==
  LET pushed == Append(p.history, [x |-> p.x, y |-> p.y, z |-> p.z, alpha |-> p.alpha])
      hist == IF Len(pushed) > 8 THEN Tail(pushed) ELSE pushed
  IN  [ParticleStep(p) EXCEPT !.history = hist]

ParticleUpdate(variant, p) ==
  IF variant = "kaylon" THEN ParticleUpdateKaylon(p) ELSE ParticleUpdateMenu(p)

(* ------------------------- createParticles ---------------------------- *)
\* a / b in fixed point
Div(a, b) == (a * Milli) \div b

\* draws the switch of part_000 makes for one particle, after the speed draw
ShapeDrawsKaylon(shape) ==
  CASE shape = "RING" -> 1
    [] shape = "HEART" -> 2
    [] shape = "STAR" -> 2
    [] shape = "BURST" -> 3
    [] OTHER -> 4

\* the heart curve's y: -(13cos t - 5cos 2t - 2cos 3t - cos 4t)
HeartY(t) ==
  0 - (13 * Cos(t) - 5 * Cos(2 * t) - 2 * Cos(3 * t) - Cos(4 * t))

\* the velocity the switch of part_000 gives particle i of count; the speed
\* draw is at position k of stream s
VelocityKaylon(config, i, count, s, k) ==
  LET baseSpeed == config.explosionSize * 6
      speed == Mul(baseSpeed, random(800, 1200, Draw(s, k)))
      shape == config.explosionShape
  IN  CASE shape = "RING" ->
             LET angle == (i * TwoPi) \div count
                 r == Mul(speed, 800)
             IN  [vx |-> Mul(Cos(angle), r), vy |-> Mul(Sin(angle), r),
                  vz |-> random(0 - Milli, Milli, Draw(s, k + 1))]
        [] shape = "HEART" ->
             LET t == random(0, TwoPi, Draw(s, k + 1))
             IN  [vx |-> Mul(16 * Pow3(Sin(t)), speed \div 16),
                  vy |-> Mul(HeartY(t), speed \div 16),
                  vz |-> random(0 - 2 * Milli, 2 * Milli, Draw(s, k + 2))]
        [] shape = "STAR" ->
             LET angle == random(0, TwoPi, Draw(s, k + 1))
                 r == Mul(500 + Mul(Abs(Sin(Mul(angle, 2500))), 1200), speed)
             IN  [vx |-> Mul(Mul(Cos(angle), r), 600),
                  vy |-> Mul(Mul(Sin(angle), r), 600),
                  vz |-> random(0 - 2 * Milli, 2 * Milli, Draw(s, k + 2))]
        [] shape = "BURST" ->
             LET angle == random(0, TwoPi, Draw(s, k + 1))
                 c == random(0 - Milli, Milli, Draw(s, k + 2))
                 r == Mul(speed, random(100, 2800, Draw(s, k + 3)))
             IN  [vx |-> Mul(Mul(r, SinAcos(c)), Cos(angle)),
                  vy |-> Mul(Mul(r, SinAcos(c)), Sin(angle)),
                  vz |-> Mul(r, CosAcos(c))]
        [] OTHER ->
             LET angle == random(0, TwoPi, Draw(s, k + 1))
                 c == random(0 - Milli, Milli, Draw(s, k + 2))
                 r == IF Draw(s, k + 3) > 800
                      THEN Mul(speed, random(300, 500, Draw(s, k + 4)))
                      ELSE Mul(speed, random(900, 1100, Draw(s, k + 4)))
             IN  [vx |-> Mul(Mul(r, SinAcos(c)), Cos(angle)),
                  vy |-> Mul(Mul(r, SinAcos(c)), Sin(angle)),
                  vz |-> Mul(r, CosAcos(c))]

\* a count forced to at least one (seeded fault)
CountAtLeastOne(config, quality) == Max(config.particleCount, 1)

\* const count = config.particleCount (part_000 does not read the quality)
CountKaylon(config, quality) == config.particleCount

\* iterations of `for (let i = 0; i < count; i++)`
LoopRuns(count) == IF count > 0 THEN count ELSE 0

\* draws one iteration of the loop of part_000 makes
DrawsPerParticleKaylon(config) ==
  1 + ShapeDrawsKaylon(config.explosionShape) + ParticleDraws("kaylon", config)

\* particles.push(new Particle(x, y, 0, config, vx, vy, vz)), v the velocity
\* the switch computed, k the stream position after it
PushKaylon(id, x, y, config, v, s, k) ==
  ParticleKaylon(id, x, y, 0, config, v.vx, v.vy, v.vz, s, k)

\* iteration i of the loop of createParticles of part_000; its first draw is
\* at position k of stream s
CreateOneKaylon(rid, cx, cy, config, i, count, s, k) ==
  PushKaylon(<< rid, i >>, cx, cy, config, VelocityKaylon(config, i, count, s, k),
             s, k + 1 + ShapeDrawsKaylon(config.explosionShape))

\* createParticles of part_000, its return value; rid names the rocket
createParticlesKaylon(rid, cx, cy, config, quality, s, k) ==
  [j \in 1..LoopRuns(CountKaylon(config, quality)) |->
     CreateOneKaylon(rid, cx, cy, config, j - 1, CountKaylon(config, quality), s,
                     k + (j - 1) * DrawsPerParticleKaylon(config))]

\* qualityMultiplier of the menu variant
QualityMultiplier(quality) ==
  CASE quality = "Low" -> 500
    [] quality = "Ultra" -> 1500
    [] OTHER -> Milli

\* Math.round in place of Math.floor (seeded fault)
CountMenuRounded(config, quality) ==
  Round(config.particleCount * QualityMultiplier(quality))

\* const count = Math.floor(config.particleCount * qualityMultiplier)
CountMenu(config, quality) ==
  Floor(config.particleCount * QualityMultiplier(quality))

\* rotate(x, y, z): about Y by rotY, then about X by rotX
Rotate(x, y, z, rotX, rotY) ==
  LET x1 == Mul(x, Cos(rotY)) - Mul(z, Sin(rotY))
      z1 == Mul(x, Sin(rotY)) + Mul(z, Cos(rotY))
      y2 == Mul(y, Cos(rotX)) - Mul(z1, Sin(rotX))
      z2 == Mul(y, Sin(rotX)) + Mul(z1, Cos(rotX))
  IN  [vx |-> x1, vy |-> y2, vz |-> z2]

\* draws the shape branch of the menu variant makes, after the speed draw
ShapeDrawsMenu(shape) ==
  CASE shape = "SPHERE" -> 2
    [] shape = "BURST" -> 3
    [] OTHER -> 0

\* the velocity the menu variant gives particle i of count
VelocityMenu(config, i, count, rotX, rotY, s, k) ==
  LET baseSpeed == config.explosionSize * 3
      speed == random(Mul(baseSpeed, 800), Mul(baseSpeed, 1200), Draw(s, k))
      shape == config.explosionShape
      angle == (i * TwoPi) \div count
  IN  CASE shape \in {"SPHERE", "BURST"} ->
             LET theta == Mul(TwoPi, Draw(s, k + 1))
                 c == 2 * Draw(s, k + 2) - Milli
                 vx == Mul(Mul(speed, SinAcos(c)), Cos(theta))
                 vy == Mul(Mul(speed, SinAcos(c)), Sin(theta))
                 vz == Mul(speed, CosAcos(c))
                 speed2 == Mul(speed, random(500, 1500, Draw(s, k + 3)))
             IN  IF shape = "BURST"
                 THEN [vx |-> Mul(Div(vx, baseSpeed), speed2),
                       vy |-> Mul(Div(vy, baseSpeed), speed2),
                       vz |-> Mul(Div(vz, baseSpeed), speed2)]
                 ELSE [vx |-> vx, vy |-> vy, vz |-> vz]
        [] shape = "RING" ->
             Rotate(Mul(Cos(angle), speed), Mul(Sin(angle), speed), 0, rotX, rotY)
        [] shape = "HEART" ->
             LET hx == 16 * Pow3(Sin(angle))
                 hy == HeartY(angle)
                 m == Isqrt(hx * hx + hy * hy)
                 mag == IF m = 0 THEN Milli ELSE m
             IN  Rotate(Mul(Div(hx, mag), speed), Mul(Div(hy, mag), speed), 0, rotX, rotY)
        [] shape = "STAR" ->
             LET r == Milli + Mul(Sin(angle * 5), 500)
             IN  Rotate(Mul(Mul(Cos(angle), speed), r), Mul(Mul(Sin(angle), speed), r),
                        0, rotX, rotY)
        [] OTHER -> [vx |-> 0, vy |-> 0, vz |-> 0]

DrawsPerParticleMenu(config) ==
  1 + ShapeDrawsMenu(config.explosionShape) + ParticleDraws("menu", config)

PushMenu(id, x, y, config, v, s, k) ==
  ParticleMenu(id, x, y, 0, config, v.vx, v.vy, v.vz, s, k)

\* iteration i of the loop of createParticles of the menu variant
CreateOneMenu(rid, cx, cy, config, i, count, rotX, rotY, s, k) ==
  PushMenu(<< rid, i >>, cx, cy, config,
           VelocityMenu(config, i, count, rotX, rotY, s, k),
           s, k + 1 + ShapeDrawsMenu(config.explosionShape))

\* createParticles of the menu variant, its return value: two draws for the
\* rotation of the shape, then the loop
createParticlesMenu(rid, cx, cy, config, quality, s, k) ==
  [j \in 1..LoopRuns(CountMenu(config, quality)) |->
     CreateOneMenu(rid, cx, cy, config, j - 1, CountMenu(config, quality),
                   random(0, TwoPi, Draw(s, k)), random(0, TwoPi, Draw(s, k + 1)),
                   s, k + 2 + (j - 1) * DrawsPerParticleMenu(config))]

createParticles(variant, rid, cx, cy, config, quality, s, k) ==
  IF variant = "kaylon"
  THEN createParticlesKaylon(rid, cx, cy, config, quality, s, k)
  ELSE createParticlesMenu(rid, cx, cy, config, quality, s, k)

\* draws of Math.random one call of createParticles makes
CreateDraws(variant, config, quality) ==
  IF variant = "kaylon"
  THEN LoopRuns(CountKaylon(config, quality)) * DrawsPerParticleKaylon(config)
  ELSE 2 + LoopRuns(CountMenu(config, quality)) * DrawsPerParticleMenu(config)

(* ------------------------------ state --------------------------------- *)
VARIABLES
  variant,        \* which copy of the engine runs: "kaylon" or "menu"
  platform,       \* audio of the platform: "none" (no AudioContext class),
                  \* else the state a new AudioContext starts in
  quality,        \* props.quality
  kaylonMode,     \* props.kaylonMode (part_000 only)
  volume,         \* props.volume, 0..100
  qualityRef,     \* qualityRef.current (menu variant only)
  phase,          \* "pre" (rendered, not mounted), "mounted", "detached"
                  \* (canvas ref cleared, effect cleanup not yet run), "gone"
  ctx2d,          \* whether canvas.getContext('2d') returns a context
  innerWidth,     \* window.innerWidth, fixed point
  innerHeight,    \* window.innerHeight
  canvasWidth,    \* canvas.width
  canvasHeight,   \* canvas.height
  listener,       \* whether handleResize is registered on window
  requestRef,     \* requestRef.current: a callback id, 0 for null
  pending,        \* ids of the animation-frame callbacks scheduled, not yet run
  rocketsRef,     \* rocketsRef.current
  particlesRef,   \* particlesRef.current
  shockwavesRef,  \* shockwavesRef.current (menu variant only)
  skyFlash,       \* skyFlash.current (part_000 only)
  flashOpacity,   \* flashOpacity.current (menu variant only)
  ambientLight,   \* ambientLight.current (part_000 only)
  fault,          \* whether a handler threw (an uncaught TypeError)
  scene,          \* arguments of the last scene generation, << >> before it
  ctx,            \* SoundManager.ctx: "null" or the AudioContext's state
  resuming,       \* whether a ctx.resume() promise is outstanding
  masterVolume,   \* SoundManager.masterVolume
  launched,       \* number of launch() calls so far (names the rockets)
  ticks,          \* number of animate() calls so far
  events,         \* number of host calls and environment changes so far
  op,             \* the handler that ran last: its name, launch's config,
                  \* what clear discarded, the handler animate ran after
  log             \* the calls that handler made, in order

engineVars ==
  << rocketsRef, particlesRef, shockwavesRef, skyFlash, flashOpacity, ambientLight,
     fault >>

propVars == << quality, kaylonMode, volume, qualityRef >>

surfaceVars == << phase, ctx2d, innerWidth, innerHeight, canvasWidth, canvasHeight >>

loopVars == << listener, requestRef, pending >>

audioVars == << ctx, resuming, masterVolume >>

vars ==
  << variant, platform, propVars, surfaceVars, loopVars, engineVars,
     scene, audioVars, launched, ticks, events, op, log >>

(* ------------------------------ inputs -------------------------------- *)
Variants == {"kaylon", "menu"}

Platforms == {"none", "suspended", "running"}

\* props.volume values the host passes (per cent): below the range, at the
\* threshold of the play methods (0.01), inside the range, above it
Volumes == {0 - 10, 1, 50, 150}

Px(n) == n * Milli

\* window sizes << innerWidth, innerHeight >>, in pixels; the window opens
\* with the first and is resized between them
Desktop == << 40, 30 >>

Viewports == { Desktop, << 0, 0 >> }

\* configurations handed to launch
Configs ==
  { Config(2, "SPHERE", 2 * Milli, 413, 100, Red),
    Config(0, "HEART", 2 * Milli, 413, 100, NotAColour),
    Config(1, "RING", 2 * Milli, 0, 100, RAINBOW) }

Entry(o, id) == [op |-> o, id |-> id]

\* the handler working on st makes the call o
Log(st, o, id) == [st EXCEPT !.log = Append(@, Entry(o, id))]

(* --------------------------- SoundManager ----------------------------- *)
\* A handler works on a record st of the mutable state it can touch:
\*   rockets, particles, shockwaves, skyFlash, flashOpacity, ambientLight,
\*   fault, ctx, resuming, k (draws of Math.random made so far), log.
\* masterVolume and platform are read from the state: no handler but
\* setVolume writes the one, nothing writes the other.

\* ctx.sampleRate, the length of one second of noise buffer
SampleRate == 441 * 100

\* init() without the test of AudioContextClass (seeded fault)
InitWithoutTest(st) ==
  IF st.ctx = "null"
  THEN [st EXCEPT !.ctx = "running", !.log = Append(@, Entry("new AudioContext", << >>))]
  ELSE st

\* init() without the test of this.ctx (seeded fault)
InitEveryTime(st) ==
  IF platform # "none"
  THEN [st EXCEPT !.ctx = platform, !.log = Append(@, Entry("new AudioContext", << >>))]
  ELSE st

\* SoundManager.init(): creates the context once, if the platform has one
SoundInit(st) ==
  IF st.ctx = "null" /\ platform # "none"
  THEN [st EXCEPT !.ctx = platform, !.log = Append(@, Entry("new AudioContext", << >>))]
  ELSE st

\* a resume requested whatever the state of the context (seeded fault)
ResumeWhateverState(st) ==
  IF st.ctx # "null"
  THEN [st EXCEPT !.resuming = TRUE, !.log = Append(@, Entry("ctx.resume", << >>))]
  ELSE st

\* `if (this.ctx && state is suspended or interrupted) this.ctx.resume()`
ResumeCall(st) ==
  IF st.ctx \in {"suspended", "interrupted"}
  THEN [st EXCEPT !.resuming = TRUE, !.log = Append(@, Entry("ctx.resume", << >>))]
  ELSE st

\* SoundManager.resume()
SoundResume(st) == ResumeCall(SoundInit(st))

\* one oscillator or noise source with its gain node, gain set to g
Generator(st, g) == [st EXCEPT !.log = Append(@, Entry("generator", << g >>))]

\* whether a play method goes past `if (!this.ctx) return` and
\* `if (vol <= 0.01) return`
Audible(st) == st.ctx # "null" /\ ~(masterVolume <= 10)

\* the oscillator and the noise of playLaunch of part_000
LaunchVoicesKaylon(st) ==
  IF Audible(st)
  THEN Generator(Generator(st, Mul(200, masterVolume)), Mul(50, masterVolume))
  ELSE st

\* SoundManager.playLaunch() of part_000
PlayLaunchKaylon(st) == LaunchVoicesKaylon(SoundInit(Log(st, "playLaunch", << >>)))

\* `if (this.ctx.state === 'suspended') this.resume()`
ResumeIfSuspended(st) == IF st.ctx = "suspended" THEN SoundResume(st) ELSE st

\* the thump, the whistle and the noise of playLaunch of the menu variant; the
\* noise buffer is filled with sampleRate values of Math.random()
LaunchVoicesMenu(st) ==
  IF Audible(st)
  THEN [Generator(Generator(Generator(st, Mul(400, masterVolume)),
                            Mul(50, masterVolume)), Mul(100, masterVolume))
          EXCEPT !.k = @ + SampleRate]
  ELSE st

\* `if (!this.ctx) return` comes before the resume
ResumeAndVoicesMenu(st) ==
  IF st.ctx = "null" THEN st ELSE LaunchVoicesMenu(ResumeIfSuspended(st))

\* SoundManager.playLaunch() of the menu variant
PlayLaunchMenu(st) == ResumeAndVoicesMenu(SoundInit(Log(st, "playLaunch", << >>)))

\* Math.min(Math.max(size, 0.5), 3)
SizeMod(size) == Min(Max(size, 500), 3 * Milli)

\* the boom and the three crackles of playExplosion of part_000, each crackle
\* with one draw for its pitch
ExplosionVoicesKaylon(st, boom, crackle) ==
  IF Audible(st)
  THEN [Generator(Generator(Generator(Generator(st, boom), crackle), crackle), crackle)
          EXCEPT !.k = @ + 3]
  ELSE st

\* SoundManager.playExplosion(size) of part_000
PlayExplosionKaylon(st, size) ==
  ExplosionVoicesKaylon(SoundInit(Log(st, "playExplosion", << >>)),
                        Mul(Mul(400, SizeMod(size)), masterVolume),
                        Mul(Mul(100, SizeMod(size)), masterVolume))

\* the crack, the boom and the rumble of playExplosion of the menu variant: one
\* draw for the pitch and three seconds of noise
ExplosionVoicesMenu(st, boom, rumble) ==
  IF Audible(st)
  THEN [Generator(Generator(Generator(st, Mul(200, masterVolume)), boom), rumble)
          EXCEPT !.k = @ + 1 + 3 * SampleRate]
  ELSE st

\* SoundManager.playExplosion(size) of the menu variant
PlayExplosionMenu(st, size) ==
  ExplosionVoicesMenu(SoundInit(Log(st, "playExplosion", << >>)),
                      Mul(Mul(600, SizeMod(size)), masterVolume),
                      Mul(Mul(400, SizeMod(size)), masterVolume))

\* a launch sound requested twice (seeded fault)
PlayLaunchTwice(st) == PlayLaunchKaylon(PlayLaunchKaylon(st))

playLaunch(st) ==
  IF variant = "kaylon" THEN PlayLaunchKaylon(st) ELSE PlayLaunchMenu(st)

playExplosion(st, size) ==
  IF variant = "kaylon" THEN PlayExplosionKaylon(st, size) ELSE PlayExplosionMenu(st, size)

\* setVolume without the clamp (seeded fault)
SetVolumeUnclamped(v) == v

\* SoundManager.setVolume(v)
setVolume(v) == Max(0, Min(Milli, v))

(* ------------------------------ drawing ------------------------------- *)
\* Array.prototype.splice(i, 1), i counted from 1
Splice(seq, i) == SubSeq(seq, 1, i - 1) \o SubSeq(seq, i + 1, Len(seq))

\* the alpha at or below which Particle.draw returns without painting:
\* 0.05 in part_000, 0.01 in the menu variant
AlphaEpsilon(v) == IF v = "kaylon" THEN 50 ELSE 10

\* whether Particle.draw of part_000 paints anything: not at alpha <= 0.05,
\* not when the projected point is more than 20px off the canvas
ParticleDrawsKaylon(p, width, height) ==
  LET focalLength == Px(1000)
      centerX == width \div 2
      centerY == height \div 2
      scale == Div(focalLength, Max(Milli, focalLength + p.z))
      screenX == Mul(p.x - centerX, scale) + centerX
      screenY == Mul(p.y - centerY, scale) + centerY
  IN  /\ ~(p.alpha <= AlphaEpsilon("kaylon"))
      /\ ~(scale <= 0)
      /\ ~(screenX < 0 - Px(20) \/ screenX > width + Px(20)
           \/ screenY < 0 - Px(20) \/ screenY > height + Px(20))

\* whether Particle.draw of the menu variant paints anything
ParticleDrawsMenu(p) == ~(p.alpha <= AlphaEpsilon("menu"))

\* r.draw(ctx, ...): part_000 paints nothing once exploded; the menu variant
\* paints every spark of the rocket and the head while not exploded
RocketDraw(st, r) ==
  IF variant = "kaylon"
  THEN IF r.exploded THEN st ELSE Log(st, "Rocket.draw", << r.id >>)
  ELSE LET a == [st EXCEPT !.log =
                   @ \o [j \in 1..Len(r.sparks) |-> Entry("Spark.draw", << r.id >>)]]
       IN  IF r.exploded THEN a ELSE Log(a, "Rocket.draw", << r.id >>)

ParticleDraw(st, p) ==
  IF \/ variant = "kaylon" /\ ParticleDrawsKaylon(p, canvasWidth, canvasHeight)
     \/ variant = "menu" /\ ParticleDrawsMenu(p)
  THEN Log(st, "Particle.draw", p.id)
  ELSE st

(* ----------------------------- Shockwave ------------------------------ *)
\* new Shockwave(x, y, color): two draws
Shockwave(id, x, y, color, s, k) ==
  [id |-> id, x |-> x, y |-> y, radius |-> Milli,
   maxRadius |-> random(Px(100), Px(200), Draw(s, k)),
   alpha |-> 500,
   rgb |-> IF color = RAINBOW THEN White ELSE hexToRgb(color),
   speed |-> random(Px(10), Px(15), Draw(s, k + 1))]

ShockwaveUpdate(sw) ==
  [sw EXCEPT !.radius = sw.radius + sw.speed, !.speed = Mul(sw.speed, 920),
             !.alpha = sw.alpha - 20]

ShockwaveDraw(st, sw) ==
  IF sw.alpha <= 10 THEN st ELSE Log(st, "Shockwave.draw", sw.id)

(* ------------------------------ animate ------------------------------- *)
\* Each step of a loop body is an operator from the record st to the record
\* after it, so the body reads as the composition of its statements.

RocketUpdate(r, s, k) ==
  IF variant = "kaylon" THEN RocketUpdateKaylon(r) ELSE RocketUpdateMenu(r, s, k)

\* the quality createParticles reads: props.quality in part_000 (unused by
\* the count), qualityRef.current in the menu variant
BurstQuality == IF variant = "kaylon" THEN quality ELSE qualityRef

\* an ambient light that is white whatever the colour (seeded fault)
LitWhite(color) == [r |-> 255, g |-> 255, b |-> 255, intensity |-> 2 * Milli]

\* ambientLight.current = { r, g, b, intensity: 2.0 }
Lit(color) == [r |-> color.r, g |-> color.g, b |-> color.b, intensity |-> 2 * Milli]

\* particlesRef.current.push(...createParticles(r.x, r.y, r.config)); the
\* part_000 createParticles also lights the sky
BurstCreate(st, r, s) ==
  [Log(st, "createParticles", << r.id, r.config.particleCount >>) EXCEPT
     !.particles = @ \o createParticles(variant, r.id, r.x, r.y, r.config,
                                        BurstQuality, s, st.k),
     !.k = @ + CreateDraws(variant, r.config, BurstQuality),
     !.ambientLight = IF variant = "kaylon" THEN Lit(hexToRgb(r.config.primaryColor))
                      ELSE @,
     !.skyFlash = IF variant = "kaylon" THEN 1500 ELSE @]

\* if (qualityRef.current !== 'Low') shockwavesRef.current.push(new Shockwave(...))
BurstShockwave(st, r, s) ==
  IF variant = "menu" /\ qualityRef # "Low"
  THEN [st EXCEPT
          !.shockwaves = Append(@, Shockwave(<< r.id >>, r.x, r.y,
                                             r.config.primaryColor, s, st.k)),
          !.k = @ + 2]
  ELSE st

\* the burst without the splice (seeded fault)
BurstKeepsRocket(st, i) ==
  [st EXCEPT !.flashOpacity = IF variant = "menu" THEN 250 ELSE @]

\* rocketsRef.current.splice(i, 1); flashOpacity.current = 0.25 (menu)
BurstRemove(st, i) ==
  [st EXCEPT !.rockets = Splice(@, i),
             !.flashOpacity = IF variant = "menu" THEN 250 ELSE @]

\* the body of `if (r.exploded) { ... }` for the rocket r at index i
BurstOf(st, r, i, s) ==
  BurstRemove(playExplosion(BurstShockwave(BurstCreate(st, r, s), r, s),
                            r.config.explosionSize), i)

Burst(st, i, s) == BurstOf(st, st.rockets[i], i, s)

\* `undefined.update()`: the TypeError an index beyond the array's end throws
Throw(st) == [st EXCEPT !.fault = TRUE]

\* r.update()
RocketStepped(st, i, s) ==
  [Log(st, "Rocket.update", << st.rockets[i].id >>) EXCEPT
     !.rockets[i] = RocketUpdate(@, s, st.k),
     !.k = @ + RocketUpdateDraws(variant, st.rockets[i])]

\* r.draw(ctx, ...)
RocketDrawn(st, i) == RocketDraw(st, st.rockets[i])

\* if (r.exploded) { ... }
RocketBurst(st, i, s) == IF st.rockets[i].exploded THEN Burst(st, i, s) ELSE st

\* one iteration of the rocket loop, at index i: update; draw; burst
RocketIteration(st, i, s) ==
  IF st.fault THEN st
  ELSE IF i > Len(st.rockets) THEN Throw(st)
  ELSE RocketBurst(RocketDrawn(RocketStepped(st, i, s), i), i, s)

\* the rocket loop run from the first index to the last (seeded fault)
RECURSIVE ForwardPass(_, _, _, _)
ForwardPass(st, hi, lo, s) ==
  IF hi < lo THEN st ELSE ForwardPass(RocketIteration(st, lo, s), hi, lo + 1, s)

\* the second half of a loop follows the first unless that threw
RECURSIVE RocketPass(_, _, _, _)
RocketRest(upper, mid, lo, s) ==
  IF upper.fault THEN upper ELSE RocketPass(upper, mid, lo, s)

\* for (let i = rockets.length - 1; i >= 0; i--): the iterations at indices
\* hi down to lo, in that order, ended by the first that throws (the range
\* is halved to keep the evaluation shallow)
RocketPass(st, hi, lo, s) ==
  IF hi < lo THEN st
  ELSE IF hi = lo THEN RocketIteration(st, hi, s)
  ELSE RocketRest(RocketPass(st, hi, (hi + lo) \div 2 + 1, s), (hi + lo) \div 2, lo, s)

\* sw.update()
ShockwaveStepped(st, i) ==
  [Log(st, "Shockwave.update", st.shockwaves[i].id) EXCEPT
     !.shockwaves[i] = ShockwaveUpdate(@)]

\* sw.draw(ctx)
ShockwaveDrawn(st, i) == ShockwaveDraw(st, st.shockwaves[i])

\* if (sw.alpha <= 0) shockwaves.splice(i, 1)
ShockwaveSpliced(st, i) ==
  IF st.shockwaves[i].alpha <= 0 THEN [st EXCEPT !.shockwaves = Splice(@, i)] ELSE st

\* one iteration of the shockwave loop of the menu variant
ShockwaveIteration(st, i) ==
  IF st.fault THEN st
  ELSE IF i > Len(st.shockwaves) THEN Throw(st)
  ELSE ShockwaveSpliced(ShockwaveDrawn(ShockwaveStepped(st, i), i), i)

RECURSIVE ShockwavePass(_, _, _)
ShockwaveRest(upper, mid, lo) ==
  IF upper.fault THEN upper ELSE ShockwavePass(upper, mid, lo)

ShockwavePass(st, hi, lo) ==
  IF hi < lo THEN st
  ELSE IF hi = lo THEN ShockwaveIteration(st, hi)
  ELSE ShockwaveRest(ShockwavePass(st, hi, (hi + lo) \div 2 + 1), (hi + lo) \div 2, lo)

\* the test of `if (p.alpha <= 0) particles.splice(i, 1)`
\* a particle pass that removes nothing (seeded fault)
NeverDead(p) == FALSE

\* if (p.alpha <= 0) particlesRef.current.splice(i, 1)
Dead(p) == p.alpha <= 0

\* p.update()
ParticleStepped(st, i) ==
  [Log(st, "Particle.update", st.particles[i].id) EXCEPT
     !.particles[i] = ParticleUpdate(variant, @)]

\* p.draw(ctx, ...)
ParticleDrawn(st, i) == ParticleDraw(st, st.particles[i])

ParticleSpliced(st, i) ==
  IF Dead(st.particles[i]) THEN [st EXCEPT !.particles = Splice(@, i)] ELSE st

\* one iteration of the particle loop: update; draw; splice
ParticleIteration(st, i) ==
  IF st.fault THEN st
  ELSE IF i > Len(st.particles) THEN Throw(st)
  ELSE ParticleSpliced(ParticleDrawn(ParticleStepped(st, i), i), i)

\* the particle loop run from the first index to the last (seeded fault)
RECURSIVE ForwardParticlePass(_, _, _)
ForwardParticlePass(st, hi, lo) ==
  IF hi < lo THEN st ELSE ForwardParticlePass(ParticleIteration(st, lo), hi, lo + 1)

RECURSIVE ParticlePass(_, _, _)
ParticleRest(upper, mid, lo) ==
  IF upper.fault THEN upper ELSE ParticlePass(upper, mid, lo)

\* for (let i = particles.length - 1; i >= 0; i--)
ParticlePass(st, hi, lo) ==
  IF hi < lo THEN st
  ELSE IF hi = lo THEN ParticleIteration(st, hi)
  ELSE ParticleRest(ParticlePass(st, hi, (hi + lo) \div 2 + 1), (hi + lo) \div 2, lo)

\* a flash overlay that takes the particles away (seeded fault)
FlashClearsParticles(st) ==
  IF st.skyFlash > 10
  THEN [Log(st, "flash", << >>) EXCEPT !.skyFlash = Mul(@, 850), !.particles = << >>]
  ELSE st

\* the flash overlay of part_000 (Matrix only), drawn while skyFlash > 0.01
FlashKaylon(st) ==
  IF st.skyFlash > 10
  THEN [Log(st, "flash", << >>) EXCEPT !.skyFlash = Mul(@, 850)]
  ELSE st

\* drawSky; drawCity, which decays the ambient light
SkyAndCity(st) ==
  [Log(Log(st, "drawSky", << >>), "drawCity", << >>) EXCEPT
     !.ambientLight.intensity = Mul(@, 940)]

\* the Vector branch: drawVectorSky; drawVectorCity
VectorBackground(st) == Log(Log(st, "drawVectorSky", << >>), "drawVectorCity", << >>)

\* the Matrix branch: drawSky; drawCity; flash overlay
MatrixBackground(st) == FlashKaylon(SkyAndCity(st))

\* the background of part_000: sky, city, flash overlay
BackgroundKaylon(st) ==
  IF kaylonMode = "Vector" THEN VectorBackground(st) ELSE MatrixBackground(st)

\* the flash of the menu variant, drawn while flashOpacity > 0.01
FlashMenu(st) ==
  IF st.flashOpacity > 10
  THEN [Log(st, "flash", << >>) EXCEPT !.flashOpacity = Mul(@, 850)]
  ELSE st

\* the background of the menu variant: fade, stars, clouds, glow, city, flash
BackgroundMenu(st) ==
  FlashMenu(Log(Log(Log(Log(Log(st, "fade", << >>), "stars", << >>), "clouds", << >>),
                    "glow", << >>), "city", << >>))

Background(st) ==
  IF variant = "kaylon" THEN BackgroundKaylon(st) ELSE BackgroundMenu(st)

RocketLoop(st, s) == RocketPass(st, Len(st.rockets), 1, s)

ShockwaveLoop(st) ==
  IF variant = "menu" THEN ShockwavePass(st, Len(st.shockwaves), 1) ELSE st

ParticleLoop(st) == ParticlePass(st, Len(st.particles), 1)

\* a frame that switches to additive blending after the rocket loop (seeded
\* fault)
FrameBlendsLate(st, s) ==
  ParticleLoop(ShockwaveLoop(Log(RocketLoop(Background(st), s), "lighter", << >>)))

\* a frame that runs the particle loop before the rocket loop (seeded fault)
EntitiesParticlesFirst(st, s) ==
  RocketLoop(ShockwaveLoop(ParticleLoop(Log(st, "lighter", << >>))), s)

\* animate() from the switch to additive blending to the end of the
\* particle loop
Entities(st, s) ==
  ParticleLoop(ShockwaveLoop(RocketLoop(Log(st, "lighter", << >>), s)))

\* animate() from its first drawing call to the end of the particle loop
Frame(st, s) == Entities(Background(st), s)

(* --------------------------- specification ---------------------------- *)
\* the record a handler works on, read from the state
St ==
  [rockets |-> rocketsRef, particles |-> particlesRef, shockwaves |-> shockwavesRef,
   skyFlash |-> skyFlash, flashOpacity |-> flashOpacity, ambientLight |-> ambientLight,
   fault |-> fault, ctx |-> ctx, resuming |-> resuming, k |-> 0, log |-> << >>]

\* ... and written back
Commit(st) ==
  /\ rocketsRef' = st.rockets
  /\ particlesRef' = st.particles
  /\ shockwavesRef' = st.shockwaves
  /\ skyFlash' = st.skyFlash
  /\ flashOpacity' = st.flashOpacity
  /\ ambientLight' = st.ambientLight
  /\ fault' = st.fault
  /\ ctx' = st.ctx
  /\ resuming' = st.resuming
  /\ log' = st.log

\* canvasRef.current is the canvas element
CanvasMounted == phase = "mounted"

\* the id requestAnimationFrame returns: one no scheduled callback has
FreshId(scheduled) == CHOOSE n \in 1..(Cardinality(scheduled) + 1) : n \notin scheduled

(* ------------------------- scene generation --------------------------- *)
\* The scene is generated from the canvas size and a stream of Math.random()
\* values; the stream is read cyclically, whatever its length.  Of a star
\* only its existence is kept and of a building its x, w, h, layer and type;
\* windows, clouds and setbacks are kept as the draws their loops make, so
\* that later draws read the stream where the source does.
SceneDraw(s, k) == s[(k % Len(s)) + 1]

\* the result of arithmetic on a division by zero (x / 0, 0 / 0)
NaN == "NaN"

\* Math.floor((width * height) / perStar), width and height whole pixels
StarCount(width, height, perStar) ==
  ((width \div Milli) * (height \div Milli)) \div perStar

\* initStars of part_000: the number of stars pushed
initStars(width, height) == StarCount(width, height, 3500)

\* whether the row test lets the column loop run: part_000 skips the row at
\* Math.random() > 0.9, the menu variant lights it at Math.random() > 0.05
RowRuns(u) == IF variant = "kaylon" THEN ~(u > 900) ELSE u > 50

\* whether a window is pushed (one more draw, for its colour)
WindowLit(u) == IF variant = "kaylon" THEN u > 700 ELSE u > 600

\* draws of the column loop from column c on, the first at position k
RECURSIVE WindowCols(_, _, _, _)
WindowCols(c, cols, s, k) ==
  IF ~(c < cols) THEN 0
  ELSE IF WindowLit(SceneDraw(s, k)) THEN 2 + WindowCols(c + 1, cols, s, k + 2)
  ELSE 1 + WindowCols(c + 1, cols, s, k + 1)

\* draws of one row: its test and, if it runs, its columns from first on
WindowRow(first, cols, s, k) ==
  IF RowRuns(SceneDraw(s, k)) THEN 1 + WindowCols(first, cols, s, k + 1) ELSE 1

\* draws of the row loop from row r on
RECURSIVE WindowRows(_, _, _, _, _, _)
WindowRows(r, rows, first, cols, s, k) ==
  IF ~(r < rows) THEN 0
  ELSE WindowRow(first, cols, s, k)
         + WindowRows(r + 1, rows, first, cols, s, k + WindowRow(first, cols, s, k))

\* initCity of part_000.  The loops work on a record c: l the layer, x the
\* cursor, k the draws made so far, w and h the block just pushed, out the
\* buildings.
DepthFactor(l) == Div(Px(l), Px(5))

\* const w = random(40, 120) + (depthFactor * 60)
BlockW(l, u) == random(Px(40), Px(120), u) + Mul(DepthFactor(l), Px(60))

\* const h = hBase + Math.sin(x/width * Math.PI) * height * 0.1
\*             + depthFactor * height * 0.15; x / 0 makes it NaN
BlockH(l, x, width, height, u) ==
  IF width = 0 THEN NaN
  ELSE random(Mul(height, 50), Mul(height, 250), u)
         + Mul(Mul(Sin(Mul(Div(x, width), Pi)), height), 100)
         + Mul(Mul(DepthFactor(l), height), 150)

\* draws of the window loops of a block of layer l, w wide and h high: rows
\* and columns count from 1; with a NaN height `r < rows` is false at once
BlockWindows(l, w, width, h, s, k) ==
  IF ~(l > 1) \/ width = 0 THEN 0
  ELSE WindowRows(1, (h - Px(10)) \div (2 * Px(4 + Floor(DepthFactor(l) * 4))),
                  1, (w - Px(10)) \div (2 * Px(3 + Floor(DepthFactor(l) * 2))), s, k)

\* the block is pushed: draws for w, hBase, depth and the windows
CityBlock(c, w, width, h, s) ==
  [c EXCEPT !.w = w, !.h = h,
            !.k = @ + 3 + BlockWindows(c.l, w, width, h, s, @ + 3),
            !.out = Append(@, [x |-> c.x, w |-> w, h |-> h, layer |-> c.l,
                               type |-> "block"])]

\* the antenna: one draw for the test, one for its height if it is pushed
CityAntenna(c, s) ==
  IF SceneDraw(s, c.k) > 500
  THEN [c EXCEPT !.k = @ + 2,
                 !.out = Append(@, [x |-> c.x + c.w \div 2 - Px(1), w |-> Px(2),
                                    h |-> Px(30), layer |-> c.l, type |-> "spire"])]
  ELSE [c EXCEPT !.k = @ + 1]

\* the spire of width spireW and its antenna
CitySpirePushed(c, spireH, spireW, s) ==
  CityAntenna([c EXCEPT !.k = @ + 3,
                        !.out = Append(@, [x |-> c.x + c.w \div 2 - spireW \div 2,
                                           w |-> spireW, h |-> spireH, layer |-> c.l,
                                           type |-> "spire"])], s)

\* if (l > 2 && Math.random() > 0.7): the draw is made only for l > 2
CitySpire(c, s) ==
  IF ~(c.l > 2) THEN c
  ELSE IF SceneDraw(s, c.k) > 700
  THEN CitySpirePushed(c, random(Px(20), Px(80), SceneDraw(s, c.k + 1)),
                       random(Px(4), Px(10), SceneDraw(s, c.k + 2)), s)
  ELSE [c EXCEPT !.k = @ + 1]

\* x += w * random(0.6, 1.2)
CityStep(c, s) ==
  [c EXCEPT !.x = @ + Mul(c.w, random(600, 1200, SceneDraw(s, c.k))), !.k = @ + 1]

\* one iteration of `while (x < width + 300)`
CityBuilding(c, width, height, s) ==
  CityStep(CitySpire(CityBlock(c, BlockW(c.l, SceneDraw(s, c.k)), width,
                               BlockH(c.l, c.x, width, height, SceneDraw(s, c.k + 1)),
                               s), s), s)

RECURSIVE CityLayer(_, _, _, _)
CityLayer(c, width, height, s) ==
  IF ~(c.x < width + Px(300)) THEN c
  ELSE CityLayer(CityBuilding(c, width, height, s), width, height, s)

\* for (let l = 0; l < layers; l++) { let x = -300; ... }
RECURSIVE CityLayers(_, _, _, _)
CityLayers(c, width, height, s) ==
  IF ~(c.l < 6) THEN c
  ELSE CityLayers([CityLayer([c EXCEPT !.x = 0 - Px(300)], width, height, s)
                     EXCEPT !.l = @ + 1], width, height, s)

\* buildings.sort((a, b) => a.layer - b.layer): the sort is stable
RECURSIVE SortByLayer(_, _)
SortByLayer(buildings, l) ==
  IF ~(l < 6) THEN << >>
  ELSE SelectSeq(buildings, LAMBDA b : b.layer = l) \o SortByLayer(buildings, l + 1)

\* initCity(width, height): cityBuildings.current
initCity(width, height, s) ==
  SortByLayer(CityLayers([l |-> 0, x |-> 0, k |-> 0, w |-> 0, h |-> 0, out |-> << >>],
                         width, height, s).out, 0)

\* initScene of the menu variant.  new Cloud(...): draws for y, x, width and
\* speed, and four for each of Math.floor(width / 40) puffs
CloudDraws(s, k) == 4 + 4 * Floor(Div(random(Px(200), Px(500), SceneDraw(s, k + 2)), Px(40)))

RECURSIVE CloudsDraws(_, _, _)
CloudsDraws(i, s, k) ==
  IF ~(i < 6) THEN 0 ELSE CloudDraws(s, k) + CloudsDraws(i + 1, s, k + CloudDraws(s, k))

\* new ComplexBuilding(...) works on a record b: k the draws made so far,
\* baseWidth, totalHeight, currentW, currentH and the draws of the windows
\* of the parts pushed so far (made after the spire, in the front layer)
BuildingPart(b, partW, partH) ==
  [b EXCEPT !.currentW = partW, !.currentH = @ + partH,
            !.parts = Append(@, [width |-> partW, height |-> partH])]

\* while (currentH < this.totalHeight && currentW > 20): two draws a part
RECURSIVE Setbacks(_, _)
Setbacks(b, s) ==
  IF ~(b.currentH < b.totalHeight /\ b.currentW > Px(20)) THEN b
  ELSE Setbacks(BuildingPart([b EXCEPT !.k = @ + 2],
                             Mul(b.currentW, random(600, 850, SceneDraw(s, b.k + 1))),
                             Mul(b.totalHeight - b.currentH,
                                 random(500, Milli, SceneDraw(s, b.k)))), s)

\* this.spireHeight = Math.random() > 0.6 ? random(20, 80) : 0
BuildingSpire(b, s) ==
  [b EXCEPT !.k = @ + (IF SceneDraw(s, b.k) > 600 THEN 2 ELSE 1)]

\* the windows of the parts from part i on (front layer only): rows and
\* columns count from 0
RECURSIVE PartWindows(_, _, _)
PartWindows(b, i, s) ==
  IF i > Len(b.parts) THEN b
  ELSE PartWindows([b EXCEPT !.k = @ + WindowRows(0, b.parts[i].height \div Px(5), 0,
                                                  (b.parts[i].width - Px(4)) \div Px(3),
                                                  s, @)], i + 1, s)

\* the constructor after baseWidth and totalHeight were drawn
BuildingShape(b, front, s) ==
  IF front
  THEN PartWindows(BuildingSpire(Setbacks(BuildingPart([b EXCEPT !.k = @ + 3], b.baseWidth,
         Mul(b.totalHeight, random(400, 700, SceneDraw(s, b.k + 2)))), s), s), 1, s)
  ELSE BuildingSpire(Setbacks(BuildingPart([b EXCEPT !.k = @ + 3], b.baseWidth,
         Mul(b.totalHeight, random(400, 700, SceneDraw(s, b.k + 2)))), s), s)

\* new ComplexBuilding(x, maxW, maxH, layer), its draws starting at k
ComplexBuilding(maxW, maxH, front, s, k) ==
  BuildingShape([k |-> k,
                 baseWidth |-> random(Mul(maxW, 600), maxW, SceneDraw(s, k)),
                 totalHeight |-> random(Mul(maxH, 400), maxH, SceneDraw(s, k + 1)),
                 currentW |-> 0, currentH |-> 0, parts |-> << >>], front, s)

\* the building is pushed and the cursor moves on by width * random(lo, hi)
LayerPush(c, maxW, b, lo, hi, s) ==
  [c EXCEPT !.x = @ + Mul(maxW, random(lo, hi, SceneDraw(s, b.k))),
            !.k = b.k + 1,
            !.out = Append(@, [x |-> c.x, w |-> b.baseWidth, h |-> b.totalHeight,
                               layer |-> c.l, type |-> "building"])]

\* one iteration of `while (currentX < canvas.width)`: width and height are
\* drawn, the building is built, the cursor moves on
LayerBuilding(c, maxW, maxH, lo, hi, s) ==
  LayerPush(c, maxW, ComplexBuilding(maxW, maxH, c.l = "front", s, c.k + 2), lo, hi, s)

\* the back layer: width 60-150, height 0.2-0.5 of the canvas, step 0.6-0.9
RECURSIVE BackLayer(_, _, _, _)
BackLayer(c, width, height, s) ==
  IF ~(c.x < width) THEN c
  ELSE BackLayer(LayerBuilding(c, random(Px(60), Px(150), SceneDraw(s, c.k)),
                               random(Mul(height, 200), Mul(height, 500),
                                      SceneDraw(s, c.k + 1)),
                               600, 900, s), width, height, s)

\* the front layer: width 40-100, height 0.1-0.35 of the canvas, step 0.9-1.1
RECURSIVE FrontLayer(_, _, _, _)
FrontLayer(c, width, height, s) ==
  IF ~(c.x < width) THEN c
  ELSE FrontLayer(LayerBuilding(c, random(Px(40), Px(100), SceneDraw(s, c.k)),
                                random(Mul(height, 100), Mul(height, 350),
                                       SceneDraw(s, c.k + 1)),
                                900, 1100, s), width, height, s)

\* initScene(): the stars (eight draws each), six clouds, the back layer
\* from -50 and the front layer from -20; cityBackRef then cityFrontRef
initScene(width, height, s) ==
  FrontLayer([BackLayer([l |-> "back", x |-> 0 - Px(50),
                         k |-> 8 * StarCount(width, height, 2500)
                               + CloudsDraws(0, s, 8 * StarCount(width, height, 2500)),
                         out |-> << >>], width, height, s)
                EXCEPT !.l = "front", !.x = 0 - Px(20)], width, height, s).out

\* what the scene sc holds: the number of stars and the buildings
Stars(sc) ==
  IF variant = "kaylon" THEN initStars(sc.width, sc.height)
  ELSE StarCount(sc.width, sc.height, 2500)

Buildings(sc) ==
  IF variant = "kaylon" THEN initCity(sc.width, sc.height, sc.s)
  ELSE initScene(sc.width, sc.height, sc.s)

\* a scene generated for the size the canvas had before (seeded fault)
SceneOfOldSize(width, height, s) ==
  << [width |-> canvasWidth, height |-> canvasHeight, s |-> s, age |-> 0] >>

\* the scene handleResize / initScene generate: their arguments and the
\* stream they read; age counts the frames that moved stars and clouds
Scene(width, height, s) == << [width |-> width, height |-> height, s |-> s, age |-> 0] >>

Init ==
  /\ variant \in Variants
  /\ platform \in Platforms
  /\ quality = "High"
  /\ kaylonMode = "Matrix"
  /\ volume = 50
  /\ qualityRef = quality
  /\ phase = "pre"
  /\ ctx2d = TRUE
  /\ innerWidth = Px(Desktop[1])
  /\ innerHeight = Px(Desktop[2])
  /\ canvasWidth = Px(300)
  /\ canvasHeight = Px(150)
  /\ listener = FALSE
  /\ requestRef = 0
  /\ pending = {}
  /\ rocketsRef = << >>
  /\ particlesRef = << >>
  /\ shockwavesRef = << >>
  /\ skyFlash = 0
  /\ flashOpacity = 0
  /\ ambientLight = [r |-> 0, g |-> 0, b |-> 0, intensity |-> 0]
  /\ fault = FALSE
  /\ scene = << >>
  /\ ctx = "null"
  /\ resuming = FALSE
  /\ masterVolume = Milli
  /\ launched = 0
  /\ ticks = 0
  /\ events = 0
  /\ op = [name |-> "render"]
  /\ log = << >>

\* the body of the setup effect: size the canvas, generate the scene,
\* register handleResize, schedule animate
EffectSetup(s, scheduled) ==
  /\ canvasWidth' = innerWidth
  /\ canvasHeight' = innerHeight
  /\ scene' = Scene(innerWidth, innerHeight, s)
  /\ listener' = TRUE
  /\ requestRef' = FreshId(scheduled)
  /\ pending' = scheduled \cup {FreshId(scheduled)}

\* the component mounts: React sets canvasRef, then runs the effects in
\* order: setVolume, (menu) qualityRef, the setup effect
Mount ==
  /\ phase = "pre"
  /\ phase' = "mounted"
  /\ masterVolume' = setVolume(volume * 10)
  /\ qualityRef' = quality
  /\ \E s \in SceneStreams : EffectSetup(s, pending)
  /\ op' = [name |-> "mount"]
  /\ log' = << >>
  /\ UNCHANGED << variant, platform, quality, kaylonMode, volume, ctx2d, innerWidth,
                  innerHeight, engineVars, ctx, resuming, launched, ticks, events >>

\* the body of the setup effect run again without its cleanup (seeded fault)
RerunWithoutCleanup ==
  \E s \in SceneStreams : EffectSetup(s, pending)

\* the cleanup of the setup effect followed by its body, as React runs them
\* when a dependency changed
EffectRerun ==
  \E s \in SceneStreams : EffectSetup(s, pending \ {requestRef})

\* the host passes a new volume: the setVolume effect runs
SetVolume(v) ==
  /\ CanvasMounted
  /\ events < MaxEvents
  /\ v # volume
  /\ volume' = v
  /\ masterVolume' = setVolume(v * 10)
  /\ events' = events + 1
  /\ op' = [name |-> "setVolume"]
  /\ log' = << >>
  /\ UNCHANGED << variant, platform, quality, kaylonMode, qualityRef, surfaceVars,
                  loopVars, engineVars, scene, ctx, resuming, launched, ticks >>

\* the host passes a new quality: part_000 re-runs the setup effect (quality
\* is one of its dependencies), the menu variant stores it in qualityRef
SetQuality(q) ==
  /\ CanvasMounted
  /\ events < MaxEvents
  /\ q # quality
  /\ quality' = q
  /\ IF variant = "kaylon"
     THEN /\ EffectRerun
          /\ UNCHANGED qualityRef
     ELSE /\ qualityRef' = q
          /\ UNCHANGED << canvasWidth, canvasHeight, scene, loopVars >>
  /\ events' = events + 1
  /\ op' = [name |-> "setQuality"]
  /\ log' = << >>
  /\ UNCHANGED << variant, platform, kaylonMode, volume, phase, ctx2d, innerWidth,
                  innerHeight, engineVars, audioVars, launched, ticks >>

\* the host passes a new kaylonMode (part_000 only): the setup effect re-runs
SetKaylonMode(m) ==
  /\ CanvasMounted
  /\ variant = "kaylon"
  /\ events < MaxEvents
  /\ m # kaylonMode
  /\ kaylonMode' = m
  /\ EffectRerun
  /\ events' = events + 1
  /\ op' = [name |-> "setKaylonMode"]
  /\ log' = << >>
  /\ UNCHANGED << variant, platform, quality, volume, qualityRef, phase, ctx2d,
                  innerWidth, innerHeight, engineVars, audioVars, launched, ticks >>

\* the window is resized; handleResize runs if it is registered
Resize(vp) ==
  /\ events < MaxEvents
  /\ << Px(vp[1]), Px(vp[2]) >> # << innerWidth, innerHeight >>
  /\ innerWidth' = Px(vp[1])
  /\ innerHeight' = Px(vp[2])
  /\ IF listener
     THEN /\ canvasWidth' = Px(vp[1])
          /\ canvasHeight' = Px(vp[2])
          /\ \E s \in SceneStreams : scene' = Scene(Px(vp[1]), Px(vp[2]), s)
     ELSE UNCHANGED << canvasWidth, canvasHeight, scene >>
  /\ events' = events + 1
  /\ op' = [name |-> "resize"]
  /\ log' = << >>
  /\ UNCHANGED << variant, platform, propVars, phase, ctx2d, loopVars, engineVars,
                  audioVars, launched, ticks >>

\* getContext('2d') starts or stops returning a context
SurfaceChange ==
  /\ events < MaxEvents
  /\ ctx2d' = ~ctx2d
  /\ events' = events + 1
  /\ op' = [name |-> "surface"]
  /\ log' = << >>
  /\ UNCHANGED << variant, platform, propVars, phase, innerWidth, innerHeight,
                  canvasWidth, canvasHeight, loopVars, engineVars, scene, audioVars,
                  launched, ticks >>

\* the component unmounts: React clears canvasRef (and the handle) first ...
Detach ==
  /\ CanvasMounted
  /\ phase' = "detached"
  /\ op' = [name |-> "detach"]
  /\ log' = << >>
  /\ UNCHANGED << variant, platform, propVars, ctx2d, innerWidth, innerHeight,
                  canvasWidth, canvasHeight, loopVars, engineVars, scene, audioVars,
                  launched, ticks, events >>

\* ... and runs the cleanup of the setup effect afterwards
Teardown ==
  /\ phase = "detached"
  /\ phase' = "gone"
  /\ listener' = FALSE
  /\ pending' = pending \ {requestRef}
  /\ op' = [name |-> "teardown"]
  /\ log' = << >>
  /\ UNCHANGED << variant, platform, propVars, ctx2d, innerWidth, innerHeight,
                  canvasWidth, canvasHeight, requestRef, engineVars, scene, audioVars,
                  launched, ticks, events >>

(* ------------------------------ facade -------------------------------- *)
\* The host reaches launch, clear and unlockAudio through the handle React
\* attaches at mount and clears at unmount.
HandleAttached == phase = "mounted"

\* rocketsRef.current.push(new Rocket(window.innerWidth, window.innerHeight, config))
PushRocketKaylon(st, config, s) ==
  [st EXCEPT !.rockets =
     Append(@, RocketKaylon(launched + 1, innerWidth, innerHeight, config, s, st.k))]

\* launch(config) of part_000: no test of the canvas; the rocket starts from
\* window.innerWidth / window.innerHeight
LaunchKaylon(config, s) == PushRocketKaylon(playLaunch(St), config, s)

\* rocketsRef.current.push(new Rocket(canvas.width, canvas.height, config))
PushRocketMenu(st, config, s) ==
  [st EXCEPT !.rockets =
     Append(@, RocketMenu(launched + 1, canvasWidth, canvasHeight, config, s, st.k))]

\* launch(config) of the menu variant: only if canvasRef.current is set; the
\* rocket starts from canvas.width / canvas.height
LaunchMenu(config, s) ==
  IF CanvasMounted THEN PushRocketMenu(playLaunch(St), config, s) ELSE St

Launch(config) ==
  /\ HandleAttached
  /\ launched < MaxLaunches
  /\ events < MaxEvents
  /\ \E s \in Streams :
       Commit(IF variant = "kaylon" THEN LaunchKaylon(config, s) ELSE LaunchMenu(config, s))
  /\ launched' = launched + 1
  /\ events' = events + 1
  /\ op' = [name |-> "launch", config |-> config]
  /\ UNCHANGED << variant, platform, propVars, surfaceVars, loopVars, scene,
                  masterVolume, ticks >>

\* seeded faults of clear(): the particles forgotten, the rockets forgotten,
\* one rocket dropped per call
ClearRocketsOnly(st) == [st EXCEPT !.rockets = << >>]

ClearParticlesOnly(st) == [st EXCEPT !.particles = << >>]

ClearOneRocket(st) ==
  [st EXCEPT !.rockets = IF @ = << >> THEN @ ELSE Tail(@), !.particles = << >>,
             !.shockwaves = << >>, !.ambientLight.intensity = 0, !.skyFlash = 0,
             !.flashOpacity = 0]

\* clear()
ClearHandler(st) ==
  IF variant = "kaylon"
  THEN [st EXCEPT !.rockets = << >>, !.particles = << >>,
                  !.ambientLight.intensity = 0, !.skyFlash = 0]
  ELSE [st EXCEPT !.rockets = << >>, !.particles = << >>, !.shockwaves = << >>,
                  !.flashOpacity = 0]

Clear ==
  /\ HandleAttached
  /\ Commit(ClearHandler(St))
  /\ op' = [name |-> "clear", rockets |-> Len(rocketsRef),
             particles |-> Len(particlesRef), shockwaves |-> Len(shockwavesRef)]
  /\ UNCHANGED << variant, platform, propVars, surfaceVars, loopVars, scene,
                  masterVolume, launched, ticks, events >>

\* unlockAudio(): SoundManager.resume()
UnlockAudio ==
  /\ HandleAttached
  /\ events < MaxEvents
  /\ Commit(SoundResume(St))
  /\ events' = events + 1
  /\ op' = [name |-> "unlockAudio"]
  /\ UNCHANGED << variant, platform, propVars, surfaceVars, loopVars, scene,
                  masterVolume, launched, ticks >>

\* the promise of ctx.resume() settles: fulfilled (the context runs) or
\* rejected (the catch handler only warns)
ResumeSettles(ok) ==
  /\ resuming
  /\ resuming' = FALSE
  /\ ctx' = IF ok THEN "running" ELSE ctx
  /\ op' = [name |-> "resumeSettles"]
  /\ log' = << >>
  /\ UNCHANGED << variant, platform, propVars, surfaceVars, loopVars, engineVars,
                  scene, masterVolume, launched, ticks, events >>

\* the platform interrupts a running context (a call, a tab switch)
AudioInterrupted ==
  /\ ctx = "running"
  /\ events < MaxEvents
  /\ ctx' = "interrupted"
  /\ events' = events + 1
  /\ op' = [name |-> "audioInterrupted"]
  /\ log' = << >>
  /\ UNCHANGED << variant, platform, propVars, surfaceVars, loopVars, engineVars,
                  scene, resuming, masterVolume, launched, ticks >>

(* ---------------------------- frame tick ------------------------------ *)
\* requestRef.current = requestAnimationFrame(animate), unless the frame threw
Scheduled(st) == IF st.fault THEN st ELSE Log(st, "requestAnimationFrame", << >>)

\* animate() past its two early returns
Animate(st, s) == Scheduled(Frame(st, s))

\* what the animate() that ran as callback id leaves: the record st, and the
\* callback it scheduled unless it threw
Ran(st, id) ==
  /\ Commit(st)
  /\ requestRef' = IF st.fault THEN requestRef ELSE FreshId(pending \ {id})
  /\ pending' = IF st.fault THEN pending \ {id}
                ELSE (pending \ {id}) \cup {FreshId(pending \ {id})}

\* a scheduled animate() runs.  Without canvas or context it returns at once
\* and schedules nothing.  Otherwise it draws the frame and schedules itself.
AnimationFrame ==
  /\ \E id \in pending :
       IF CanvasMounted /\ ctx2d
       THEN /\ \E s \in Streams : Ran(Animate(St, s), id)
            /\ scene' = IF variant = "menu"
                        THEN [i \in 1..Len(scene) |-> [scene[i] EXCEPT !.age = @ + 1]]
                        ELSE scene
       ELSE /\ pending' = pending \ {id}
            /\ log' = << >>
            /\ UNCHANGED << requestRef, engineVars, scene, ctx, resuming >>
  /\ ticks' = ticks + 1
  /\ op' = [name |-> "animate",
             after |-> IF op.name = "animate" THEN [name |-> "animate"] ELSE op]
  /\ UNCHANGED << variant, platform, propVars, surfaceVars, listener, masterVolume,
                  launched, events >>

\* a frame tick of a run of at most MaxTicks frames
Tick == ticks < MaxTicks /\ AnimationFrame

Next ==
  \/ Mount
  \/ \E v \in Volumes : SetVolume(v)
  \/ \E q \in Qualities : SetQuality(q)
  \/ \E m \in KaylonModes : SetKaylonMode(m)
  \/ \E vp \in Viewports : Resize(vp)
  \/ SurfaceChange
  \/ Detach
  \/ Teardown
  \/ \E config \in Configs : Launch(config)
  \/ Clear
  \/ UnlockAudio
  \/ \E ok \in BOOLEAN : ResumeSettles(ok)
  \/ AudioInterrupted
  \/ Tick

Spec == Init /\ [][Next]_vars

(* ------------------- bursts of every shape and tier ------------------- *)
\* particle counts handed to launch with every shape
GenCounts == {0, 1, 3}

\* a count beyond the range FireworkConfig documents (50 - 400), with a decay
\* rate that ends its particles in the frame that creates them
Beyond == Config(401, "SPHERE", 2 * Milli, 2 * Milli, 100, Red)

GenConfigs ==
  { Config(pc, shape, 2 * Milli, 413, 100, Red) : pc \in GenCounts, shape \in Shapes }
    \cup {Beyond}

\* the engine mounted under any quality tier, right after launch(config)
InitGen ==
  /\ variant \in Variants
  /\ platform = "none"
  /\ quality \in Qualities
  /\ kaylonMode = "Matrix"
  /\ volume = 50
  /\ qualityRef = quality
  /\ phase = "mounted"
  /\ ctx2d = TRUE
  /\ innerWidth = Px(Desktop[1])
  /\ innerHeight = Px(Desktop[2])
  /\ canvasWidth = innerWidth
  /\ canvasHeight = innerHeight
  /\ listener = TRUE
  /\ requestRef = 1
  /\ pending = {1}
  /\ \E config \in GenConfigs, s \in Streams :
       /\ rocketsRef =
            << IF variant = "kaylon"
               THEN RocketKaylon(1, innerWidth, innerHeight, config, s, 0)
               ELSE RocketMenu(1, canvasWidth, canvasHeight, config, s, 0) >>
       /\ op = [name |-> "launch", config |-> config]
  /\ particlesRef = << >>
  /\ shockwavesRef = << >>
  /\ skyFlash = 0
  /\ flashOpacity = 0
  /\ ambientLight = [r |-> 0, g |-> 0, b |-> 0, intensity |-> 0]
  /\ fault = FALSE
  /\ \E s \in SceneStreams : scene = Scene(innerWidth, innerHeight, s)
  /\ ctx = "null"
  /\ resuming = FALSE
  /\ masterVolume = setVolume(volume * 10)
  /\ launched = 1
  /\ ticks = 0
  /\ events = 1
  /\ log = << Entry("playLaunch", << >>) >>

NextGen == Tick

SpecGen == InitGen /\ [][NextGen]_vars


(* ------------------ scenes of every viewport and stream --------------- *)
\* viewports scenes are generated for: degenerate ones, a narrow one, a
\* wider and higher one whose blocks have rows of windows
SceneViewports == { << 0, 0 >>, << 0, 30 >>, << 50, 0 >>, << 50, 30 >>, << 140, 300 >> }

CityStreams == [1..CityStreamLen -> MathRandom]

\* the engine mounted in any of the viewports, its scene generated from any
\* of the streams, nothing launched yet
InitScene ==
  /\ variant \in Variants
  /\ platform = "none"
  /\ quality = "High"
  /\ kaylonMode = "Matrix"
  /\ volume = 50
  /\ qualityRef = quality
  /\ phase = "mounted"
  /\ ctx2d = TRUE
  /\ \E vp \in SceneViewports :
       /\ innerWidth = Px(vp[1])
       /\ innerHeight = Px(vp[2])
  /\ canvasWidth = innerWidth
  /\ canvasHeight = innerHeight
  /\ listener = TRUE
  /\ requestRef = 1
  /\ pending = {1}
  /\ rocketsRef = << >>
  /\ particlesRef = << >>
  /\ shockwavesRef = << >>
  /\ skyFlash = 0
  /\ flashOpacity = 0
  /\ ambientLight = [r |-> 0, g |-> 0, b |-> 0, intensity |-> 0]
  /\ fault = FALSE
  /\ \E s \in CityStreams : scene = Scene(innerWidth, innerHeight, s)
  /\ ctx = "null"
  /\ resuming = FALSE
  /\ masterVolume = setVolume(volume * 10)
  /\ launched = 0
  /\ ticks = 0
  /\ events = 0
  /\ op = [name |-> "mount"]
  /\ log = << >>

NextScene ==
  \/ \E vp \in Viewports : Resize(vp)
  \/ Tick

SpecScene == InitScene /\ [][NextScene]_vars


(* ---------------------- rockets in mid flight ------------------------- *)
\* a window high enough for a rocket to slow down to its velocity threshold
\* before it reaches its target altitude
Tall == << 400, 1080 >>

\* frames a rocket has flown when the run starts: just launched, or one or
\* two frames before the frame in which it bursts (its 32nd / 50th frame by
\* altitude, its 68th / 60th by velocity, part_000 / menu variant)
FlightFrames == {0, 30, 48, 59, 67}

\* r, which has flown `flown` frames, after n more calls of r.update(), one
\* per frame (the frames are halved to keep the evaluation shallow, and the
\* rocket of the first half is bound as a value)
RECURSIVE Climb(_, _, _, _)
Climb(r, flown, n, s) ==
  IF n = 0 THEN r
  ELSE IF n = 1 THEN RocketUpdate(r, s, 6 * flown)
  ELSE CHOOSE q \in {Climb(half, flown + n \div 2, n - n \div 2, s) :
                       half \in {Climb(r, flown, n \div 2, s)}} : TRUE

\* the rocket launch(config) pushed, n frames later
InFlight(id, config, n, s) ==
  Climb(IF variant = "kaylon"
        THEN RocketKaylon(id, Px(Tall[1]), Px(Tall[2]), config, s, 0)
        ELSE RocketMenu(id, Px(Tall[1]), Px(Tall[2]), config, s, 0), 0, n, s)

\* frames the second rocket has flown, or that it was not launched yet
NotLaunched == 0 - 1

\* the handler that ran last when the newest rocket has flown n frames
LastOp(config, n) ==
  IF n = 0 THEN [name |-> "launch", config |-> config]
  ELSE [name |-> "animate",
        after |-> IF n = 1 THEN [name |-> "launch", config |-> config]
                  ELSE [name |-> "animate"]]

\* the engine mounted in the tall window with one or two rockets on their
\* way up, the first launched no later than the second
InitFlight ==
  /\ variant \in Variants
  /\ platform = "none"
  /\ quality = "High"
  /\ kaylonMode \in IF variant = "kaylon" THEN KaylonModes ELSE {"Matrix"}
  /\ volume = 50
  /\ qualityRef = quality
  /\ phase = "mounted"
  /\ ctx2d = TRUE
  /\ innerWidth = Px(Tall[1])
  /\ innerHeight = Px(Tall[2])
  /\ canvasWidth = innerWidth
  /\ canvasHeight = innerHeight
  /\ listener = TRUE
  /\ requestRef = 1
  /\ pending = {1}
  /\ \E config \in Configs, n1 \in FlightFrames, n2 \in FlightFrames \cup {NotLaunched},
        s1 \in Streams, s2 \in Streams :
       /\ n1 >= n2
       /\ rocketsRef = IF n2 = NotLaunched THEN << InFlight(1, config, n1, s1) >>
                       ELSE << InFlight(1, config, n1, s1), InFlight(2, config, n2, s2) >>
       /\ \A i \in 1..Len(rocketsRef) : ~rocketsRef[i].exploded
       /\ op = LastOp(config, IF n2 = NotLaunched THEN n1 ELSE n2)
       /\ launched = Len(rocketsRef)
       /\ events = Len(rocketsRef)
  /\ particlesRef = << >>
  /\ shockwavesRef = << >>
  /\ skyFlash = 0
  /\ flashOpacity = 0
  /\ ambientLight = [r |-> 0, g |-> 0, b |-> 0, intensity |-> 0]
  /\ fault = FALSE
  /\ \E s \in SceneStreams : scene = Scene(innerWidth, innerHeight, s)
  /\ ctx = "null"
  /\ resuming = FALSE
  /\ masterVolume = setVolume(volume * 10)
  /\ ticks = 0
  /\ log = << >>

NextFlight ==
  \/ \E config \in Configs : Launch(config)
  \/ Clear
  \/ Tick

SpecFlight == InitFlight /\ [][NextFlight]_vars


(* -------------------- one rocket from launch on ----------------------- *)
\* windows a rocket is launched in: none, the desktop one, one high enough
\* for a burst by velocity, one so high that no rocket reaches its target
AscentViewports == { << 0, 0 >>, Desktop, Tall, << 400, 4000 >> }

\* a configuration whose particles never fade and never move, and one whose
\* particles grow brighter
Still == Config(1, "SPHERE", 0, 0, 0, Red)

Brightening == Config(1, "SPHERE", 2 * Milli, 0 - 413, 100, Red)

AscentConfigs == Configs \cup {Still, Brightening}

\* part_000 mounted in any of the windows, right after launch(config)
InitAscent ==
  /\ variant = "kaylon"
  /\ platform = "none"
  /\ quality = "High"
  /\ kaylonMode = "Matrix"
  /\ volume = 50
  /\ qualityRef = quality
  /\ phase = "mounted"
  /\ ctx2d = TRUE
  /\ \E vp \in AscentViewports :
       /\ innerWidth = Px(vp[1])
       /\ innerHeight = Px(vp[2])
  /\ canvasWidth = innerWidth
  /\ canvasHeight = innerHeight
  /\ listener = TRUE
  /\ requestRef = 1
  /\ pending = {1}
  /\ \E config \in AscentConfigs, s \in Streams :
       /\ rocketsRef = << RocketKaylon(1, innerWidth, innerHeight, config, s, 0) >>
       /\ op = [name |-> "launch", config |-> config]
  /\ particlesRef = << >>
  /\ shockwavesRef = << >>
  /\ skyFlash = 0
  /\ flashOpacity = 0
  /\ ambientLight = [r |-> 0, g |-> 0, b |-> 0, intensity |-> 0]
  /\ fault = FALSE
  /\ \E s \in SceneStreams : scene = Scene(innerWidth, innerHeight, s)
  /\ ctx = "null"
  /\ resuming = FALSE
  /\ masterVolume = setVolume(volume * 10)
  /\ launched = 1
  /\ ticks = 0
  /\ events = 1
  /\ log = << Entry("playLaunch", << >>) >>

\* a frame tick of a run of at most MaxAscent frames
NextAscent == ticks < MaxAscent /\ AnimationFrame

\* the frame count advances: the step every NextAscent step is, enabled
\* whenever NextAscent is (animate runs whenever a callback is pending)
FrameRuns == ticks < MaxAscent /\ pending # {} /\ ticks' = ticks + 1

\* requestAnimationFrame runs the callback animate scheduled: while a frame
\* is pending it is run
SpecAscent == InitAscent /\ [][NextAscent]_vars /\ WF_ticks(FrameRuns)


(* ------------------------------- claims ------------------------------- *)
\* the positions of the log lg at which the handler called o
Calls(lg, o) == {i \in 1..Len(lg) : lg[i].op = o}

\* the calls a frame makes only for a live rocket, particle or shockwave,
\* and the requests for a sound
EntityCalls ==
  {"Rocket.update", "Rocket.draw", "Spark.draw", "Shockwave.update", "Shockwave.draw",
   "Particle.update", "Particle.draw", "createParticles", "playLaunch", "playExplosion"}

\* C1: every launch(config) appends exactly one rocket to the live rockets:
\* it carries config, has not exploded, starts at y = viewport height and moves
\* up.  The launch sound is requested exactly once, and the live particles,
\* the sky flash and the ambient light are left as they were.
LaunchAppendsOneRocket ==
  [][launched' # launched =>
       /\ Len(rocketsRef') = Len(rocketsRef) + 1
       /\ SubSeq(rocketsRef', 1, Len(rocketsRef)) = rocketsRef
       /\ rocketsRef'[Len(rocketsRef')].config = op'.config
       /\ ~rocketsRef'[Len(rocketsRef')].exploded
       /\ rocketsRef'[Len(rocketsRef')].y = innerHeight
       /\ rocketsRef'[Len(rocketsRef')].vy < 0
       /\ Cardinality(Calls(log', "playLaunch")) = 1
       /\ particlesRef' = particlesRef
       /\ shockwavesRef' = shockwavesRef
       /\ skyFlash' = skyFlash
       /\ flashOpacity' = flashOpacity
       /\ ambientLight' = ambientLight]_vars

\* a second launch, made while particles of the first burst are alive
LaunchedOverLiveParticles ==
  op.name = "launch" /\ launched = 2 /\ Len(particlesRef) > 0

\* C2: after clear(), whatever was alive, the rockets, the particles and the
\* shockwaves are empty, and sky flash, flash opacity and ambient intensity are 0.
ClearEmptiesEverything ==
  op.name = "clear" =>
    /\ rocketsRef = << >>
    /\ particlesRef = << >>
    /\ shockwavesRef = << >>
    /\ skyFlash = 0
    /\ flashOpacity = 0
    /\ ambientLight.intensity = 0

\* a clear() that discarded live rockets and live particles
ClearedLiveScene == op.name = "clear" /\ op.rockets > 0 /\ op.particles > 0

\* C3: clear() is idempotent: in every reachable state, clear(); clear()
\* leaves every engine variable as a single clear() leaves it.
ClearIdempotent == ClearHandler(ClearHandler(St)) = ClearHandler(St)

\* a clear() that found nothing alive although two rockets were launched and
\* no frame ran: an earlier clear() had discarded them
ClearedTwice ==
  /\ op.name = "clear"
  /\ op.rockets = 0
  /\ launched = 2
  /\ ticks = 0

\* C4: the frame tick that follows clear() immediately updates and draws no
\* rocket, particle or shockwave, creates no particles and requests no sound.
ClearThenTickIsQuiet ==
  (op.name = "animate" /\ op.after.name = "clear") =>
    \A i \in 1..Len(log) : log[i].op \notin EntityCalls

\* a frame drawn right after a clear() that discarded rockets and particles
QuietFrameAfterClear ==
  /\ op.name = "animate"
  /\ op.after.name = "clear"
  /\ op.after.rockets > 0
  /\ op.after.particles > 0
  /\ Calls(log, "requestAnimationFrame") # {}

\* the particles the burst logged at position i of the log created: a new
\* particle is updated once in the frame that creates it
Created(i) == {j \in Calls(log, "Particle.update") : log[j].id[1] = log[i].id[1]}

\* the rocket and the particles of the burst logged at position i that are alive
Left(i) ==
  {j \in 1..Len(rocketsRef) : rocketsRef[j].id = log[i].id[1]}
    \cup {j \in 1..Len(particlesRef) : particlesRef[j].id[1] = log[i].id[1]}

\* C5: a launch with particleCount = 0 never faults, for every shape: the
\* rocket climbs, bursts and is removed like any other (none is left at the
\* last frame), and its burst creates no particle, so that the particle list
\* is empty after the burst frame when nothing else is in flight.
ZeroCountBurstAddsNothing ==
  /\ ~fault
  /\ \A j \in 1..Len(rocketsRef) : ticks > 0 => rocketsRef[j].y < innerHeight
  /\ ticks = MaxTicks => rocketsRef = << >>
  /\ \A i \in Calls(log, "createParticles") :
       log[i].id[2] = 0 =>
         /\ Created(i) = {}
         /\ Left(i) = {}
         /\ particlesRef = << >>
         /\ Cardinality(Calls(log, "playExplosion")) = 1

\* the burst frame of a rocket launched with particleCount = 0
ZeroCountBurst ==
  /\ op.name = "animate"
  /\ \E i \in Calls(log, "createParticles") : log[i].id[2] = 0
  /\ rocketsRef = << >>
  /\ particlesRef = << >>

\* the quality tiers: Low 0.5, High 1.0, Ultra 1.5
Tier(q) == CASE q = "Low" -> 500 [] q = "Ultra" -> 1500 [] OTHER -> Milli

\* the largest particleCount FireworkConfig documents
MaxParticleCount == 400

BurstCountBounded ==
  \A i \in Calls(log, "createParticles") :
    Cardinality(Created(i)) <= Floor(MaxParticleCount * Tier("Ultra"))

\* the live particles with identity id
Live(particles, id) == {j \in 1..Len(particles) : particles[j].id = id}

\* C8: a particle starts at alpha 1 and every update() lowers its alpha by
\* exactly its own decay, and strictly: after a frame, a particle that was
\* live before it has alpha = old alpha - decay < old alpha, and a particle the
\* frame created, updated once, has alpha = 1 - decay < 1.
AlphaStrictlyDecreases ==
  [][\A i \in Calls(log', "Particle.update") :
       \A j \in Live(particlesRef', log'[i].id) :
         IF Live(particlesRef, log'[i].id) = {}
         THEN /\ particlesRef'[j].alpha = Milli - particlesRef'[j].decay
              /\ particlesRef'[j].alpha < Milli
         ELSE \A h \in Live(particlesRef, log'[i].id) :
                /\ particlesRef'[j].alpha = particlesRef[h].alpha - particlesRef[h].decay
                /\ particlesRef'[j].alpha < particlesRef[h].alpha]_vars

\* C9 as the code has it: the particle pass removes a particle in the frame
\* in which its alpha reaches 0 or less, so no live particle has alpha <= 0
\* at the end of a frame; the epsilon (0.05 in part_000, 0.01 in the menu
\* variant) only decides painting: every particle a frame painted is live
\* with alpha above it.
DeadParticlesLeaveInTheirFrame ==
  /\ \A j \in 1..Len(particlesRef) : particlesRef[j].alpha > 0
  /\ \A i \in Calls(log, "Particle.draw") :
       /\ Live(particlesRef, log[i].id) # {}
       /\ \A j \in Live(particlesRef, log[i].id) :
            particlesRef[j].alpha > AlphaEpsilon(variant)

\* a frame that updated a particle and removed it, next to none it painted
ParticleRemovedInFrame ==
  /\ op.name = "animate"
  /\ \E i \in Calls(log, "Particle.update") : Live(particlesRef, log[i].id) = {}
  /\ Calls(log, "Particle.draw") = {}

\* C9 as claimed: at the end of every frame tick no live particle has alpha
\* at or below the epsilon under which it is no longer painted.
NoFaintParticleSurvives ==
  op.name = "animate" =>
    \A j \in 1..Len(particlesRef) : particlesRef[j].alpha > AlphaEpsilon(variant)

\* the drawing surface: the canvas is mounted and getContext gives a context
SurfaceAvailable == CanvasMounted /\ ctx2d

\* C10: while the drawing surface is unavailable, launch() adds no rocket and
\* requests no sound and a frame tick changes no engine state; and whenever
\* the surface is available (again) a frame is scheduled, so that the ticks
\* go on advancing the simulation.
SurfaceGuardsEngine ==
  [][/\ (launched' # launched /\ ~SurfaceAvailable) =>
          /\ rocketsRef' = rocketsRef
          /\ Calls(log', "playLaunch") = {}
     /\ (ticks' # ticks /\ ~SurfaceAvailable) => UNCHANGED engineVars
     /\ (SurfaceAvailable' /\ ~fault') => pending' # {}]_vars

\* the calls that create or drive audio objects
AudioCalls == {"new AudioContext", "ctx.resume", "generator"}

\* the rockets and particles of st by identity, in order: what does not
\* depend on the values Math.random() returned
Shape(st) ==
  [rockets |-> [i \in 1..Len(st.rockets) |->
                  << st.rockets[i].id, st.rockets[i].config, st.rockets[i].exploded >>],
   particles |-> [i \in 1..Len(st.particles) |-> st.particles[i].id]]

\* the engine with a running audio context
WithAudio == [St EXCEPT !.ctx = "running"]

\* launch(config) run on the record st
LaunchOn(st, config, s) ==
  IF variant = "kaylon" THEN PushRocketKaylon(playLaunch(st), config, s)
  ELSE IF CanvasMounted THEN PushRocketMenu(playLaunch(st), config, s)
  ELSE st

\* C11: on a platform without an audio context no audio call creates a
\* context, a generator or a resume request, and none raises; launch and the
\* frame (with its bursts) leave the same rockets and the same particles, in
\* the same order, as they leave when a running context exists.
SilentWithoutAudio ==
  platform = "none" =>
    /\ ctx = "null"
    /\ ~resuming
    /\ ~fault
    /\ \A i \in 1..Len(log) : log[i].op \notin AudioCalls
    /\ \A s \in Streams :
         /\ Shape(Frame(St, s)) = Shape(Frame(WithAudio, s))
         /\ \A config \in Configs :
              Shape(LaunchOn(St, config, s)) = Shape(LaunchOn(WithAudio, config, s))

\* a burst with its explosion sound requested, on a platform without audio
BurstWithoutAudio ==
  /\ platform = "none"
  /\ op.name = "animate"
  /\ Calls(log, "createParticles") # {}
  /\ Calls(log, "playExplosion") # {}
  /\ particlesRef # << >>

\* C12: unlockAudio() can be called any number of times in any state: it
\* requests a resume, once, exactly when the context (after init) is
\* suspended or interrupted; it creates a context only when none exists and
\* never replaces one; it changes no rocket, particle, shockwave, flash or
\* ambient state and raises nothing; a resume that settles, fulfilled or
\* rejected, changes none of them and raises nothing either.
UnlockAudioIsSafe ==
  [][/\ op'.name = "unlockAudio" =>
          /\ Cardinality(Calls(log', "ctx.resume")) =
               IF ctx' \in {"suspended", "interrupted"} THEN 1 ELSE 0
          /\ Cardinality(Calls(log', "new AudioContext")) =
               IF ctx = "null" /\ platform # "none" THEN 1 ELSE 0
          /\ ctx # "null" => ctx' = ctx
          /\ UNCHANGED engineVars
          /\ ~fault'
     /\ op'.name = "resumeSettles" =>
          /\ UNCHANGED engineVars
          /\ ~fault'
          /\ ctx' \in {ctx, "running"}]_vars

\* unlockAudio() called again while the context it created is still suspended
RepeatedUnlock ==
  /\ op.name = "unlockAudio"
  /\ ctx = "suspended"
  /\ Calls(log, "new AudioContext") = {}
  /\ Calls(log, "ctx.resume") # {}

\* the factors the play methods multiply the master volume by: a constant of
\* the voice, times the clamped explosion size for the voices of a burst
GainFactors ==
  {Mul(b, m) : b \in {50, 100, 200, 400, 600},
               m \in {Milli} \cup {SizeMod(c.explosionSize) : c \in Configs}}

\* C13: the master volume is within [0, 1] after any setVolume call; at or
\* below 0.01 playLaunch and playExplosion create no generator; above it the
\* initial gain of every generator they create is a fixed factor times the
\* master volume.
VolumeScalesEveryVoice ==
  /\ masterVolume >= 0
  /\ masterVolume <= Milli
  /\ masterVolume <= 10 => Calls(log, "generator") = {}
  /\ \A i \in Calls(log, "generator") :
       \E f \in GainFactors : log[i].id[1] = Mul(f, masterVolume)

\* a launch at master volume 0.01 exactly, with an audio context: no voice
SilentLaunchAtThreshold ==
  /\ op.name = "launch"
  /\ volume = 1
  /\ masterVolume = 10
  /\ ctx # "null"
  /\ Calls(log, "playLaunch") # {}
  /\ Calls(log, "generator") = {}

\* C14: across mount, frame ticks, quality and visual-style changes, resizes
\* and teardown at most one animation-frame callback is pending at any time;
\* after teardown none is pending and no frame tick runs any more.
OneFrameCallback ==
  [][/\ Cardinality(pending) <= 1
     /\ Cardinality(pending') <= 1
     /\ phase' = "gone" => pending' = {}
     /\ phase = "gone" => ticks' = ticks /\ pending' = {}]_vars

\* torn down after frames ran and a quality change re-ran the setup effect
TornDownAfterRerun ==
  /\ phase = "gone"
  /\ variant = "kaylon"
  /\ quality # "High"
  /\ ticks > 0
  /\ requestRef # 0

\* the x from which the generation loops push no building any more
RightEdge(width) == IF variant = "kaylon" THEN width + Px(300) ELSE width

\* C15: a viewport resize sizes the canvas to the window and generates the
\* stars and the skyline anew for that size (the star count is that of the
\* new area, every block starts left of the new right edge), and leaves
\* the rockets, the particles, the shockwaves, the sky flash and the ambient
\* light exactly as they were.
ResizeKeepsFireworks ==
  [][(op'.name = "resize" /\ listener) =>
       /\ canvasWidth' = innerWidth'
       /\ canvasHeight' = innerHeight'
       /\ \E s \in SceneStreams : scene' = Scene(innerWidth', innerHeight', s)
       /\ Stars(scene'[1]) =
            StarCount(innerWidth', innerHeight', IF variant = "kaylon" THEN 3500 ELSE 2500)
       /\ \A i \in 1..Len(Buildings(scene'[1])) :
            Buildings(scene'[1])[i].type # "spire" =>
              Buildings(scene'[1])[i].x < RightEdge(innerWidth')
       /\ UNCHANGED engineVars]_vars

\* a resize while particles are in flight
ResizedOverParticles ==
  /\ op.name = "resize"
  /\ listener
  /\ particlesRef # << >>
  /\ scene[1].width = innerWidth
  /\ canvasWidth = innerWidth

\* whether the x-ranges [x, x + w] of the buildings leave no point of
\* [0, width] out: 0 is in one, and the right end of each that lies in
\* [0, width) is in one that reaches further right
Covered(buildings, width) ==
  /\ \E i \in 1..Len(buildings) :
       buildings[i].x <= 0 /\ 0 <= buildings[i].x + buildings[i].w
  /\ \A i \in 1..Len(buildings) :
       (0 <= buildings[i].x + buildings[i].w /\ buildings[i].x + buildings[i].w < width)
         => \E j \in 1..Len(buildings) :
              /\ buildings[j].x <= buildings[i].x + buildings[i].w
              /\ buildings[i].x + buildings[i].w < buildings[j].x + buildings[j].w

\* C16: after scene generation for a viewport of width W > 0, whatever the
\* random widths and spacings, the x-ranges of the buildings cover [0, W]
\* without a gap.
SkylineCoversViewport ==
  \A i \in 1..Len(scene) :
    scene[i].width > 0 => Covered(Buildings(scene[i]), scene[i].width)

\* C17: the scene generated for a viewport of width 0 or height 0 is empty:
\* no star and no building (the generation ends and raises nothing).
DegenerateSceneIsEmpty ==
  \A i \in 1..Len(scene) :
    (scene[i].width = 0 \/ scene[i].height = 0) =>
      /\ Stars(scene[i]) = 0
      /\ Len(Buildings(scene[i])) = 0

\* the calls o the frame logged in lg made for the rocket with identity id
RocketCalls(lg, o, id) == {c \in Calls(lg, o) : lg[c].id[1] = id}

\* the live rockets with identity id
LiveRocket(rockets, id) == {j \in 1..Len(rockets) : rockets[j].id = id}

\* C18: the exploded flag goes from false to true only, and is consumed in
\* the frame that sets it: no live rocket is exploded at the end of any frame,
\* and a rocket a frame updated is removed in that frame if and only if the
\* frame generated its particles, which it does once at most.  In part_000
\* update() sets the flag exactly when, after the step, vy >= -1 or
\* y <= targetY.
ExplodedIsConsumedInItsFrame ==
  [][/\ \A j \in 1..Len(rocketsRef') : ~rocketsRef'[j].exploded
     /\ \A i \in 1..Len(rocketsRef) :
          RocketCalls(log', "Rocket.update", rocketsRef[i].id) # {} =>
            /\ ~rocketsRef[i].exploded
            /\ Cardinality(RocketCalls(log', "createParticles", rocketsRef[i].id)) <= 1
            /\ LiveRocket(rocketsRef', rocketsRef[i].id) = {}
                 <=> RocketCalls(log', "createParticles", rocketsRef[i].id) # {}
            /\ variant = "kaylon" =>
                 (LiveRocket(rocketsRef', rocketsRef[i].id) = {}
                    <=> \/ rocketsRef[i].vy + 250 >= 0 - Milli
                        \/ rocketsRef[i].y + rocketsRef[i].vy <= rocketsRef[i].targetY)]_vars

\* a frame of part_000 in which one rocket burst below every target altitude
\* (at most 0.35 of the height), hence by its velocity, and the other flew on
BurstBySlowingDown ==
  /\ op.name = "animate"
  /\ variant = "kaylon"
  /\ Calls(log, "createParticles") # {}
  /\ Len(rocketsRef) = 1
  /\ particlesRef # << >>
  /\ \A j \in 1..Len(particlesRef) : particlesRef[j].y > Mul(innerHeight, 350)

\* the identities of the rockets of a list, in its order
RocketIds(rockets) == [j \in 1..Len(rockets) |-> rockets[j].id]

\* the rockets the frame logged in lg burst
BurstIds(lg) == {lg[c].id[1] : c \in Calls(lg, "createParticles")}

\* what is left, at the end of the frame, of the particles made: each was
\* updated once by the particle pass, which removed the dead ones
AfterOneUpdate(made) ==
  SelectSeq([j \in 1..Len(made) |-> ParticleUpdate(variant, made[j])],
            LAMBDA p : ~Dead(p))

\* the particles the explosion generator makes for rocket r where r is after
\* its update, reading the stream s from position k on
GeneratedFor(r, s, k) ==
  createParticles(variant, r.id, RocketUpdate(r, s, k).x, RocketUpdate(r, s, k).y,
                  r.config, BurstQuality, s, k)

\* C19: a rocket bursts at most once, and only a live rocket bursts.  Each
\* burst is one call of the explosion generator at the rocket's position with
\* its config, whose particles are appended behind the existing ones, which
\* are all kept, one request for the explosion sound, and the removal of that
\* rocket and no other.  So every step keeps the balance: the launches it
\* adds are the rockets it adds to the live ones plus the rockets it burst
\* plus the rockets clear() discarded in it, and the explosion sounds it
\* requests are as many as its bursts.
EachBurstIsAccounted ==
  [][/\ \A id \in BurstIds(log') :
          /\ Cardinality(RocketCalls(log', "createParticles", id)) = 1
          /\ Cardinality(LiveRocket(rocketsRef, id)) = 1
          /\ LiveRocket(rocketsRef', id) = {}
          /\ \A i \in LiveRocket(rocketsRef, id) :
               \E s \in Streams, k \in 0..(StreamLen - 1) :
                 SelectSeq(particlesRef', LAMBDA p : p.id[1] = id)
                   = AfterOneUpdate(GeneratedFor(rocketsRef[i], s, k))
     /\ op'.name = "animate" =>
          /\ RocketIds(rocketsRef')
               = SelectSeq(RocketIds(rocketsRef), LAMBDA id : id \notin BurstIds(log'))
          /\ SubSeq(particlesRef', 1, Len(AfterOneUpdate(particlesRef)))
               = AfterOneUpdate(particlesRef)
          /\ \A j \in (Len(AfterOneUpdate(particlesRef)) + 1)..Len(particlesRef') :
               particlesRef'[j].id[1] \in BurstIds(log')
     /\ Cardinality(Calls(log', "playExplosion")) = Cardinality(Calls(log', "createParticles"))
     /\ launched' - launched
          = (Len(rocketsRef') - Len(rocketsRef))
            + Cardinality(Calls(log', "createParticles"))
            + (IF op'.name = "clear" THEN op'.rockets ELSE 0)]_vars

\* a frame that burst the first of the two rockets launched: the second is
\* still live, and the particles of the burst are
BurstAmongOthers ==
  /\ op.name = "animate"
  /\ launched = 2
  /\ BurstIds(log) = {1}
  /\ RocketIds(rocketsRef) = << 2 >>
  /\ Cardinality(Calls(log, "playExplosion")) = 1
  /\ particlesRef # << >>
  /\ \A j \in 1..Len(particlesRef) : particlesRef[j].id[1] = 1

\* the identities of the particles of a list
ParticleIds(particles) == {particles[j].id : j \in 1..Len(particles)}

\* the identities Particle.update was called for in the frame logged in lg
UpdatedParticles(lg) == {lg[c].id : c \in Calls(lg, "Particle.update")}

\* C20: removals never disturb a pass.  In a frame that is drawn, every
\* rocket live at its start is updated exactly once and nothing else is; the
\* particles live at the start of the particle pass (those live at the start
\* of the frame and those the bursts of the frame generated) are updated
\* exactly once each and nothing else is; the frame does not fault; a rocket
\* leaves only by bursting, and a particle only if its update left it dead:
\* the rockets that did not burst and the particles not dead stay, in order.
PassesSurviveRemoval ==
  [][(ticks' # ticks /\ CanvasMounted /\ ctx2d) =>
       /\ ~fault'
       /\ Cardinality(Calls(log', "Rocket.update")) = Len(rocketsRef)
       /\ \A i \in 1..Len(rocketsRef) :
            /\ Cardinality(RocketCalls(log', "Rocket.update", rocketsRef[i].id)) = 1
            /\ LiveRocket(rocketsRef', rocketsRef[i].id) = {}
                 => \E s \in Streams, k \in 0..(StreamLen - 1) :
                      RocketUpdate(rocketsRef[i], s, k).exploded
       /\ RocketIds(rocketsRef')
            = SelectSeq(RocketIds(rocketsRef), LAMBDA id : id \notin BurstIds(log'))
       /\ Cardinality(Calls(log', "Particle.update"))
            = Cardinality(UpdatedParticles(log'))
       /\ ParticleIds(particlesRef) \subseteq UpdatedParticles(log')
       /\ \A id \in UpdatedParticles(log') \ ParticleIds(particlesRef) :
            id[1] \in BurstIds(log')
       /\ \A i \in 1..Len(rocketsRef) :
            rocketsRef[i].id \in BurstIds(log') =>
              \E s \in Streams, k \in 0..(StreamLen - 1) :
                /\ {id \in UpdatedParticles(log') : id[1] = rocketsRef[i].id}
                     = ParticleIds(GeneratedFor(rocketsRef[i], s, k))
                /\ SelectSeq(particlesRef', LAMBDA p : p.id[1] = rocketsRef[i].id)
                     = AfterOneUpdate(GeneratedFor(rocketsRef[i], s, k))
       /\ SelectSeq(particlesRef', LAMBDA p : p.id[1] \notin BurstIds(log'))
            = AfterOneUpdate(particlesRef)]_vars

\* a frame whose particle pass removed the particles of one burst from among
\* those of another, which are still live
RemovedAmongSurvivors ==
  /\ op.name = "animate"
  /\ particlesRef # << >>
  /\ UpdatedParticles(log) \ ParticleIds(particlesRef) # {}
  /\ \E id \in ParticleIds(particlesRef) :
       \E gone \in UpdatedParticles(log) \ ParticleIds(particlesRef) : gone[1] > id[1]

\* the position in the log lg of the call o made for the entity id (0 if none)
Pos(lg, o, id) ==
  IF \E c \in Calls(lg, o) : lg[c].id = id
  THEN CHOOSE c \in Calls(lg, o) : lg[c].id = id
  ELSE 0

\* the call o is made for the entity a before it is made for the entity b,
\* when it is made for both
Before(lg, o, a, b) ==
  (Pos(lg, o, a) > 0 /\ Pos(lg, o, b) > 0) => Pos(lg, o, a) < Pos(lg, o, b)

\* a frame that is drawn
FrameDrawn == ticks' # ticks /\ CanvasMounted /\ ctx2d

\* C21 as the code has it: both passes run from the last index to the first,
\* so within a frame the entities of a collection are updated and drawn
\* newest first: of two rockets the one inserted later comes first, of two
\* particles live at the start of the frame the one inserted later comes
\* first, and the particles the frame's bursts append come before all of them.
EntitiesProcessedNewestFirst ==
  [][FrameDrawn =>
       /\ \A i, j \in 1..Len(rocketsRef) :
            i < j =>
              /\ Pos(log', "Rocket.update", << rocketsRef[j].id >>)
                   < Pos(log', "Rocket.update", << rocketsRef[i].id >>)
              /\ Before(log', "Rocket.draw", << rocketsRef[j].id >>, << rocketsRef[i].id >>)
       /\ \A i, j \in 1..Len(particlesRef) :
            i < j =>
              /\ Pos(log', "Particle.update", particlesRef[j].id)
                   < Pos(log', "Particle.update", particlesRef[i].id)
              /\ Before(log', "Particle.draw", particlesRef[j].id, particlesRef[i].id)
       /\ \A c \in Calls(log', "Particle.update") :
            log'[c].id \notin ParticleIds(particlesRef) =>
              \A i \in 1..Len(particlesRef) :
                c < Pos(log', "Particle.update", particlesRef[i].id)]_vars

\* a frame that updated the second rocket before the first, and of the two
\* particles of a burst the second before the first
NewestWentFirst ==
  /\ op.name = "animate"
  /\ Pos(log, "Rocket.update", << 2 >>) > 0
  /\ Pos(log, "Rocket.update", << 2 >>) < Pos(log, "Rocket.update", << 1 >>)
  /\ \E rid \in 1..MaxLaunches :
       /\ Pos(log, "Particle.update", << rid, 1 >>) > 0
       /\ Pos(log, "Particle.update", << rid, 1 >>) < Pos(log, "Particle.update", << rid, 0 >>)

\* C21 as claimed: within a frame the entities of a collection are updated
\* and drawn in the order in which they were inserted.
EntitiesProcessedInInsertionOrder ==
  [][FrameDrawn =>
       /\ \A i, j \in 1..Len(rocketsRef) :
            i < j =>
              /\ Before(log', "Rocket.update", << rocketsRef[i].id >>, << rocketsRef[j].id >>)
              /\ Before(log', "Rocket.draw", << rocketsRef[i].id >>, << rocketsRef[j].id >>)
       /\ \A i, j \in 1..Len(particlesRef) :
            i < j =>
              /\ Before(log', "Particle.update", particlesRef[i].id, particlesRef[j].id)
              /\ Before(log', "Particle.draw", particlesRef[i].id, particlesRef[j].id)]_vars

\* the calls that paint the background, those of the rocket pass that touch
\* a rocket, and those of the particle pass
BackgroundCalls ==
  {"drawSky", "drawCity", "drawVectorSky", "drawVectorCity", "flash",
   "fade", "stars", "clouds", "glow", "city"}

RocketPassCalls == {"Rocket.update", "Rocket.draw", "Spark.draw", "createParticles"}

ParticlePassCalls == {"Particle.update", "Particle.draw"}

\* the positions of the log at which one of the calls of the set os was made
CallsOf(os) == {c \in 1..Len(log) : log[c].op \in os}

\* C22: a frame runs its steps in a fixed order.  It switches to additive
\* blending once; every background layer is painted before that and every
\* rocket and particle is updated and drawn after it; every rocket is
\* processed before any particle.  In part_000 the frame starts with the sky,
\* then the city, then the full-frame flash if there is one (Matrix only),
\* then the switch.
FrameStepsInOrder ==
  (op.name = "animate" /\ log # << >>) =>
    /\ Cardinality(Calls(log, "lighter")) = 1
    /\ \A l \in Calls(log, "lighter") :
         /\ \A c \in CallsOf(BackgroundCalls) : c < l
         /\ \A c \in CallsOf(RocketPassCalls \cup ParticlePassCalls) : l < c
    /\ \A c \in CallsOf(RocketPassCalls) : \A d \in CallsOf(ParticlePassCalls) : c < d
    /\ variant = "kaylon" =>
         /\ log[1].op = IF kaylonMode = "Vector" THEN "drawVectorSky" ELSE "drawSky"
         /\ log[2].op = IF kaylonMode = "Vector" THEN "drawVectorCity" ELSE "drawCity"
         /\ Calls(log, "flash") \subseteq {3}
         /\ kaylonMode = "Vector" => Calls(log, "flash") = {}
         /\ Calls(log, "lighter") = {3 + Cardinality(Calls(log, "flash"))}

\* a frame of part_000 that painted the flash, drew a rocket and drew a particle
FlashRocketAndParticleDrawn ==
  /\ op.name = "animate"
  /\ variant = "kaylon"
  /\ Calls(log, "flash") # {}
  /\ Calls(log, "Rocket.draw") # {}
  /\ Calls(log, "Particle.draw") # {}

\* the colour of a light
Colour(light) == [r |-> light.r, g |-> light.g, b |-> light.b]

\* the position in the log lg of the burst the frame processed last
LastBurst(lg) ==
  CHOOSE c \in Calls(lg, "createParticles") :
    \A d \in Calls(lg, "createParticles") : d <= c

\* C23: in part_000, after a frame in which a rocket burst, the ambient light
\* has the RGB of the primary colour of the rocket that burst last in the
\* frame, white for the RAINBOW marker, #ef4444 as (239, 68, 68), and the intensity 2.0; a frame without
\* a burst and launch leave the ambient colour as it was.
AmbientFollowsLastBurst ==
  [][/\ (variant = "kaylon" /\ Calls(log', "createParticles") # {}) =>
          \A i \in LiveRocket(rocketsRef, log'[LastBurst(log')].id[1]) :
            /\ Colour(ambientLight') = hexToRgb(rocketsRef[i].config.primaryColor)
            /\ rocketsRef[i].config.primaryColor = RAINBOW
                 => Colour(ambientLight') = [r |-> 255, g |-> 255, b |-> 255]
            /\ rocketsRef[i].config.primaryColor = Red
                 => Colour(ambientLight') = [r |-> 239, g |-> 68, b |-> 68]
            /\ ambientLight'.intensity = 2 * Milli
     /\ (Calls(log', "createParticles") = {} /\ op'.name \in {"animate", "launch"})
          => Colour(ambientLight') = Colour(ambientLight)]_vars

\* a frame of part_000 that burst two rockets, first the one launched second,
\* with the RAINBOW marker, and last the red one launched first
RedBurstAfterRainbow ==
  /\ op.name = "animate"
  /\ variant = "kaylon"
  /\ Cardinality(Calls(log, "createParticles")) = 2
  /\ log[LastBurst(log)].id = << 1, 2 >>
  /\ \E c \in Calls(log, "createParticles") : log[c].id = << 2, 1 >>
  /\ ambientLight = [r |-> 239, g |-> 68, b |-> 68, intensity |-> 2 * Milli]

\* the sky flash of the variant: skyFlash in part_000, flashOpacity in the
\* menu variant, and the value a burst gives it (1.5 and 0.25)
SkyFlashOf(kaylon, menu) == IF variant = "kaylon" THEN kaylon ELSE menu

BurstFlash == SkyFlashOf(1500, 250)

\* C24: every burst sets the sky flash to the same fixed value, and every
\* later frame decays it, in every visual style: a frame with a burst leaves
\* it at the fixed value, and a frame without one that finds it above 0.01
\* leaves it strictly smaller.
FlashDecaysEveryFrame ==
  [][FrameDrawn =>
       /\ Calls(log', "createParticles") # {}
            => SkyFlashOf(skyFlash', flashOpacity') = BurstFlash
       /\ (Calls(log', "createParticles") = {} /\ SkyFlashOf(skyFlash, flashOpacity) > 10)
            => SkyFlashOf(skyFlash', flashOpacity') < SkyFlashOf(skyFlash, flashOpacity)]_vars

\* the rockets and the particles of the record st: positions, velocities,
\* alpha and all the rest
Physics(st) == [rockets |-> st.rockets, particles |-> st.particles, fault |-> st.fault]

\* the frame of part_000 drawn in the style mode
FrameInStyle(mode, st, s) ==
  Entities(IF mode = "Vector" THEN VectorBackground(st) ELSE MatrixBackground(st), s)

\* what the sky flash and the ambient intensity of a run can be where those
\* of a run in the other style, with the same entities, are as in st
OtherLights(st) ==
  {[st EXCEPT !.skyFlash = f, !.ambientLight.intensity = a] :
     f \in {0, st.skyFlash, 1500}, a \in {0, st.ambientLight.intensity, 2 * Milli}}

\* C25: the visual style does not change physics.  launch and clear of
\* part_000 do not read the style, and from every state a frame drawn in the
\* Matrix style and a frame drawn in the Vector style, with the same draws of
\* Math.random, leave the same rockets and the same particles (positions,
\* velocities, alpha), whatever the flash and the ambient light the two runs
\* have: so two runs that differ in the style only have the same entities
\* after every tick and remove each in the same tick.
StyleKeepsPhysics ==
  variant = "kaylon" =>
    \A s \in Streams : \A other \in OtherLights(St) :
      Physics(FrameInStyle("Matrix", St, s)) = Physics(FrameInStyle("Vector", other, s))

\* a frame drawn in the Vector style after a burst: a rocket and particles
\* are live and the flash stands where the burst put it
VectorFrameOverEntities ==
  /\ op.name = "animate"
  /\ variant = "kaylon"
  /\ kaylonMode = "Vector"
  /\ Calls(log, "drawVectorSky") # {}
  /\ rocketsRef # << >>
  /\ particlesRef # << >>
  /\ skyFlash = 1500

\* C26: the audio context is created lazily and at most once.  It is absent
\* at the start; a step creates a context only while there is none, one at
\* most, and only as unlockAudio, as a launch that requests the launch sound
\* or as a frame that requests the explosion sound; a context, once present,
\* is never replaced and never reset to absent.
ContextCreatedOnce ==
  /\ ctx = "null"
  /\ [][/\ Cardinality(Calls(log', "new AudioContext"))
             = IF ctx = "null" /\ ctx' # "null" THEN 1 ELSE 0
        /\ ctx # "null" => ctx' # "null"
        /\ (ctx = "null" /\ ctx' # "null") =>
             \/ op'.name = "unlockAudio"
             \/ op'.name = "launch" /\ Calls(log', "playLaunch") # {}
             \/ op'.name = "animate" /\ Calls(log', "playExplosion") # {}]_vars

\* a second launch that requested its sound from the context that was there
SecondLaunchReusesContext ==
  /\ op.name = "launch"
  /\ launched = 2
  /\ ctx # "null"
  /\ Calls(log, "playLaunch") # {}
  /\ Calls(log, "generator") # {}
  /\ Calls(log, "new AudioContext") = {}

\* C27: the trail histories of part_000 are fixed-capacity FIFOs.  A live
\* particle's history holds exactly 4 samples; a frame puts the position the
\* particle had before its update in front and drops the oldest sample, the
\* last; a particle the frame created, updated once, holds 4 samples of the
\* point it was created at.  A rocket's trail never holds more than 8
\* samples: a frame appends the position before the update and drops the
\* oldest, the first, beyond 8.
TrailsAreBoundedFifos ==
  [][variant = "kaylon" =>
       /\ \A j \in 1..Len(particlesRef') :
            /\ Len(particlesRef'[j].history) = 4
            /\ \A c \in Calls(log', "Particle.update") :
                 log'[c].id = particlesRef'[j].id =>
                   IF Live(particlesRef, particlesRef'[j].id) = {}
                   THEN \A h \in 1..4 :
                          particlesRef'[j].history[h]
                            = << particlesRef'[j].x - particlesRef'[j].vx,
                                 particlesRef'[j].y - particlesRef'[j].vy,
                                 particlesRef'[j].z - particlesRef'[j].vz >>
                   ELSE \A i \in Live(particlesRef, particlesRef'[j].id) :
                          particlesRef'[j].history
                            = << << particlesRef[i].x, particlesRef[i].y, particlesRef[i].z >> >>
                                \o SubSeq(particlesRef[i].history, 1, 3)
       /\ \A j \in 1..Len(rocketsRef') :
            /\ Len(rocketsRef'[j].trail) <= 8
            /\ \A i \in LiveRocket(rocketsRef, rocketsRef'[j].id) :
                 RocketCalls(log', "Rocket.update", rocketsRef[i].id) # {} =>
                   rocketsRef'[j].trail
                     = (IF Len(rocketsRef[i].trail) = 8 THEN Tail(rocketsRef[i].trail)
                        ELSE rocketsRef[i].trail)
                         \o << [x |-> rocketsRef[i].x, y |-> rocketsRef[i].y] >>]_vars

\* a frame of part_000 after which a rocket has a full trail that has moved
\* on and a particle has a history of four different samples
FullTrailAndHistory ==
  /\ op.name = "animate"
  /\ variant = "kaylon"
  /\ \E j \in 1..Len(rocketsRef) :
       /\ Len(rocketsRef[j].trail) = 8
       /\ rocketsRef[j].trail[8].y = rocketsRef[j].y - rocketsRef[j].vy + 250
  /\ \E j \in 1..Len(particlesRef) :
       Cardinality({particlesRef[j].history[h] : h \in 1..4}) = 4

\* C28: a rocket of part_000 is launched with vy in [-26, -18] and gains 0.25
\* per update, so in every window and for every draw it is exploded and
\* removed after at most 100 frame ticks: a rocket still live after n ticks has
\* vy = vy0 + 0.25 n < -1, no rocket is live after 100 ticks, and under fair
\* frame ticks with no further launch the live rocket set becomes empty
RocketBurstsWithinHundredUpdates ==
  /\ [](\A i \in 1..Len(rocketsRef) :
          /\ ~rocketsRef[i].exploded
          /\ rocketsRef[i].vy < 0 - Milli
          /\ rocketsRef[i].vy - 250 * ticks >= 0 - 26 * Milli
          /\ rocketsRef[i].vy - 250 * ticks <= 0 - 18 * Milli)
  /\ [](ticks >= 100 => rocketsRef = << >>)
  /\ <>[](rocketsRef = << >>)

\* in the highest window the fastest rocket bursts by velocity at update 100
BurstAtHundredthUpdate ==
  /\ ticks = 100
  /\ innerHeight = Px(4000)
  /\ op.name = "animate"
  /\ rocketsRef = << >>
  /\ RocketCalls(log, "Rocket.update", 1) # {}
  /\ Calls(log, "createParticles") # {}

UnfadingParticleIsKept ==
  [][\A i \in 1..Len(particlesRef) :
        particlesRef[i].decay <= 0 /\ particlesRef[i].alpha > 0 =>
          \E j \in 1..Len(particlesRef') :
            /\ particlesRef'[j].id = particlesRef[i].id
            /\ particlesRef'[j].alpha >= particlesRef[i].alpha]_vars

\* C30: in part_000 the particles of a burst are updated in the frame of the
\* burst, the rocket pass running before the particle pass: every particle
\* the generator made is updated exactly once in that frame, after the call
\* of the generator; the ones left at the end of the frame have alpha = 1 -
\* decay, a history holding the burst position (the rocket's, after its
\* update, at depth 0) and a position one velocity step away from it; and
\* the ones whose decay is at least 1 are not left at the end of the frame
NewParticlesUpdatedInBurstFrame ==
  [][(FrameDrawn /\ variant = "kaylon") =>
       \A i \in 1..Len(rocketsRef) :
         rocketsRef[i].id \in BurstIds(log') =>
           \E s \in Streams, k \in 0..(StreamLen - 1) :
             \E made \in {GeneratedFor(rocketsRef[i], s, k)},
                burst \in {RocketUpdateKaylon(rocketsRef[i])} :
               /\ \A n \in 1..Len(made) :
                    /\ Cardinality({u \in Calls(log', "Particle.update") :
                                      log'[u].id = made[n].id}) = 1
                    /\ \A u \in Calls(log', "Particle.update") :
                         log'[u].id = made[n].id =>
                           \A c \in RocketCalls(log', "createParticles", rocketsRef[i].id) :
                             c < u
                    /\ made[n].alpha = Milli
                    /\ (made[n].decay >= Milli)
                         <=> (made[n].id \notin ParticleIds(particlesRef'))
               /\ \A j \in 1..Len(particlesRef') :
                    particlesRef'[j].id[1] = rocketsRef[i].id =>
                      /\ particlesRef'[j].alpha = Milli - particlesRef'[j].decay
                      /\ particlesRef'[j].history
                           = [h \in 1..4 |-> << burst.x, burst.y, 0 >>]
                      /\ particlesRef'[j].x = burst.x + particlesRef'[j].vx
                      /\ particlesRef'[j].y = burst.y + particlesRef'[j].vy
                      /\ particlesRef'[j].z = particlesRef'[j].vz]_vars

\* a burst of part_000 whose particles are left, each faded and moved by one
\* update
NewParticlesFadedOnce ==
  /\ op.name = "animate"
  /\ variant = "kaylon"
  /\ BurstIds(log) = {1}
  /\ Len(particlesRef) >= 3
  /\ \A j \in 1..Len(particlesRef) :
       /\ particlesRef[j].alpha = Milli - particlesRef[j].decay
       /\ particlesRef[j].alpha < Milli
       /\ particlesRef[j].history[1] = particlesRef[j].history[4]
  /\ \E j \in 1..Len(particlesRef) :
       << particlesRef[j].x, particlesRef[j].y, particlesRef[j].z >>
         # particlesRef[j].history[1]

==========================================================================
